---- MODULE Spec2Model ----
(***************************************************************************)
(* Model of the batch analysis workflow of the resume screening            *)
(* application: the BulkResumeUpload component (its queue of FileStatus    *)
(* entries, handleAnalyzeAll and analyzeFile) together with the tables it  *)
(* writes (resumes, analysis_results, usage_logs) and the calls it makes   *)
(* (analyze-resume, send-risk-notification).                               *)
(*                                                                         *)
(* handleAnalyzeAll is an async function: every await is a point where     *)
(* other event handlers of the component may run, so the handler is        *)
(* modelled as one action per segment between two awaits, with pc naming   *)
(* the await the run is suspended at.                                      *)
(***************************************************************************)
EXTENDS Integers, Sequences, FiniteSets, TLC

(* ---------------------------- bounds ----------------------------------- *)

\* total number of queue entries created over a behaviour
MaxAdds == 2

(* ------------------------- input domains ------------------------------- *)

\* files the user can pick or drop whose type is accepted and size <= 10MB
ValidFiles == {"a.pdf", "b.txt"}

\* a file whose type is not in validTypes
InvalidFiles == {"x.png"}

Files == ValidFiles \cup InvalidFiles

\* lengths of the cleaned text of a file that are tried (0: nothing readable)
TextLens == {0, 49, 50}

\* risk_level values of the replies of the analysis endpoint that are tried
Risks == {"low", "high"}

\* credibility_score values of those replies that are tried
Scores == {30}

\* values of the remainingAnalyses prop that are tried: a quota that a batch can
\* exceed, and the value the dashboard passes
Quotas == {1, 9999}

(* ------------------------ program constants ---------------------------- *)

\* the disabled prop of BulkResumeUpload as the dashboard passes it
disabled == FALSE

\* minimum length of the extracted text accepted by analyzeFile
MinTextLen == 50

\* length of "Unable to extract text content from this file format."
SentinelLen == 53

NoResult == [id |-> 0, risk_level |-> "none", credibility_score |-> 0]

NoError == ""

TooShortMsg == "Could not extract enough text from this file"

VARIABLES
  fileStatuses,       \* the queue: state of the component (useState)
  isProcessing,       \* useState flag
  remainingAnalyses,  \* prop: remaining quota
  dropFileStatuses,   \* fileStatuses as captured by the memoized handleDrop
  snapshot,           \* fileStatuses as captured by the running handleAnalyzeAll
  pc,                 \* await the running handleAnalyzeAll is suspended at
  i,                  \* loop index of the run (1-based), 0 outside the loop
  resumeText,         \* length of the text extracted for the current file
  analysisData,       \* reply of analyze-resume for the current file
  resumes,            \* table resumes: rows [id, user_id]
  analysis_results,   \* table analysis_results: rows [id, resume_id, user_id, ...]
  usage_logs,         \* table usage_logs: resume ids of the rows
  nextId,             \* next fresh entry id
  toast,              \* last notice shown by handleAnalyzeAll
  log,                \* history: calls made by the runs, in order
  request,            \* analyze-resume: the request being served
  apiKey,             \* analyze-resume: LOVABLE_API_KEY is set in the environment
  epc,                \* analyze-resume: await the handler is suspended at
  outbound,           \* analyze-resume: bodies sent to the AI gateway, in order
  upstream,           \* analyze-resume: what the AI gateway answered
  response,           \* analyze-resume: the response returned to the caller
  authUser,           \* id of the user the supabase client is signed in as, 0: nobody
  sessionUser,        \* session.user.id as captured by the running handleAnalyzeAll
  selectedFile,       \* ResumeUpload: useState, "none" for null
  isAnalyzing,        \* ResumeUpload: useState flag
  spc,                \* ResumeUpload: await the running handleAnalyze is suspended at
  sv,                 \* ResumeUpload: the locals of the running handleAnalyze
  sToast,             \* ResumeUpload: last notice shown
  score,              \* views: the credibility score that is shown
  view,               \* views: the view that rendered it last
  colour,             \* views: the class that view gave to the score
  xfile,              \* extractor: the file it is called with
  xtext,              \* extractor: the text it returned
  csvStage,           \* export: what has been computed so far
  csvIn,              \* export: the value, or the analysis, that is exported
  csvOut,             \* export: the characters written for it
  csvParsed,          \* export: the rows a CSV reader makes of csvOut
  selectedForCompare, \* history: useState, the ids ticked for comparison
  riskFilter,         \* history: useState
  dateFilter,         \* history: useState
  searchQuery,        \* history: useState
  compared,           \* history: the pairs onCompare was called with, in order
  hToast,             \* history: last notice shown
  db,                 \* accounts: the tables the service-role functions write
  fnRes               \* accounts: the response of the last function call

\* the variables of the analyze-resume edge function
endpointVars == <<request, apiKey, epc, outbound, upstream, response>>

\* the variables of the ResumeUpload component
singleVars == <<selectedFile, isAnalyzing, spc, sv, sToast>>

\* the variables of the score views
viewVars == <<score, view, colour>>

\* the variables of a call of extractTextFromFile on its own
extractVars == <<xfile, xtext>>

\* the variables of the CSV export
csvVars == <<csvStage, csvIn, csvOut, csvParsed>>

\* the variables of the parts of the program that stand apart from the uploads
\* the variables of the AnalysisHistory component
historyVars == <<selectedForCompare, riskFilter, dateFilter, searchQuery, compared, hToast>>

\* the variables of the workspace and account functions
accountVars == <<db, fnRes>>

otherVars == <<csvVars, historyVars, accountVars>>

\* the variables the batch component never touches
nonBatchVars == <<endpointVars, singleVars, viewVars, extractVars, otherVars, authUser>>

vars == <<fileStatuses, isProcessing, remainingAnalyses, dropFileStatuses,
          snapshot, pc, i, resumeText, analysisData, resumes,
          analysis_results, usage_logs, nextId, toast, log, sessionUser,
          nonBatchVars>>

(* ----------------------------- helpers --------------------------------- *)

Terminal == {"complete", "error"}

Range(s) == {s[k] : k \in 1..Len(s)}

\* fileStatuses.filter(fs => fs.status === 'pending').length
PendingCount(fs) == Cardinality({k \in 1..Len(fs) : fs[k].status = "pending"})

\* fileStatuses.some(fs => fs.file.name === file.name && fs.file.size === file.size)
AlreadyAdded(fs, f) == \E k \in 1..Len(fs) : fs[k].file = f

\* { file, status: 'pending' }
NewEntry(id, f) ==
  [eid |-> id, file |-> f, status |-> "pending", result |-> NoResult, error |-> NoError]

\* prev.map((item, idx) => idx === i ? { ...item, status } : item)
SetStatus(prev, idx, st) ==
  [k \in 1..Len(prev) |-> IF k = idx THEN [prev[k] EXCEPT !.status = st] ELSE prev[k]]

\* prev.map((item, idx) => idx === i ? { ...item, status: 'complete', result } : item)
SetComplete(prev, idx, res) ==
  [k \in 1..Len(prev) |->
     IF k = idx THEN [prev[k] EXCEPT !.status = "complete", !.result = res] ELSE prev[k]]

\* variant: the catch sets the status but not the message
SetError_NoMessage(prev, idx, msg) ==
  [k \in 1..Len(prev) |-> IF k = idx THEN [prev[k] EXCEPT !.status = "error"] ELSE prev[k]]

\* prev.map((item, idx) => idx === i ? { ...item, status: 'error', error: msg } : item)
SetError(prev, idx, msg) ==
  [k \in 1..Len(prev) |->
     IF k = idx THEN [prev[k] EXCEPT !.status = "error", !.error = msg] ELSE prev[k]]

\* variant: the loop does not skip the entries captured as not pending
NextPending_NoSkip(snap, from) == IF from <= Len(snap) THEN from ELSE 0

\* variant: the loop takes the pending entries from the end of the queue
NextPending_Last(snap, from) ==
  LET cand == {k \in from..Len(snap) : snap[k].status = "pending"}
  IN IF cand = {} THEN 0 ELSE CHOOSE k \in cand : \A m \in cand : k >= m

\* the loop of handleAnalyzeAll: first index >= from of the captured queue
\* whose captured status is pending (the others are skipped by continue);
\* 0 when the loop is over
NextPending(snap, from) ==
  LET cand == {k \in from..Len(snap) : snap[k].status = "pending"}
  IN IF cand = {} THEN 0 ELSE CHOOSE k \in cand : \A m \in cand : k <= m

\* variant: the quota test lets one file too many through
QuotaExceeded_OffByOne(pendingCnt, remaining) == pendingCnt > remaining + 1

\* if (pendingFiles.length > remainingAnalyses)
QuotaExceeded(pendingCnt, remaining) == pendingCnt > remaining

\* variant: the delay is not conditioned on the index
DelayAfter_Always(idx, len) == TRUE

\* if (i < fileStatuses.length - 1), on the 1-based index
DelayAfter(idx, len) == idx < len

\* file.type of a file, from its name
TypeOf(name) ==
  IF name = "b.txt" THEN "text/plain"
  ELSE IF name = "a.pdf" THEN "application/pdf"
  ELSE "image/png"

\* length of matches.map(m => m.slice(1, -1)).join(" ") for the lengths of the
\* contents of the parenthesised groups
RECURSIVE JoinedLen(_)
JoinedLen(groups) ==
  IF Len(groups) = 0 THEN 0
  ELSE IF Len(groups) = 1 THEN groups[1]
  ELSE groups[1] + 1 + JoinedLen(Tail(groups))

\* cleaned length below which a PDF is searched for parenthesised text
PdfRetryLen == 100

\* length of the text extractTextFromFile returns for a file: raw is the length
\* of file.text(), cleaned the length of the decoded and cleaned text, groups
\* the lengths of the contents of the parenthesised groups of file.text()
extractTextFromFile(f) ==
  IF f.type = "text/plain" THEN f.raw
  ELSE LET text == IF f.cleaned < PdfRetryLen /\ f.type = "application/pdf" /\ f.groups # << >>
                     THEN JoinedLen(f.groups)
                     ELSE f.cleaned
       IN IF text = 0 THEN SentinelLen ELSE text

\* a file of the given name whose text, read directly or cleaned, has length n
\* and holds no parenthesised group
FileOf(name, n) == [type |-> TypeOf(name), raw |-> n, cleaned |-> n, groups |-> << >>]

\* variant: a text of 49 characters passes
TooShort_Below49(len) == len < MinTextLen - 1

\* if (resumeText.length < 50) throw
TooShort(len) == len < MinTextLen

\* variant: the tables accept a row whatever its user_id
rls_Off(uid) == TRUE

\* WITH CHECK (auth.uid() = user_id) of the insert policies
rls(uid) == authUser = uid

\* variant: every result is notified
ShouldNotify_Always(risk) == TRUE

\* if (analysisData.risk_level === 'high')
ShouldNotify(risk) == risk = "high"

\* variant: the call is not wrapped in try/catch
NotifyThrows_NoCatch(outcome) == outcome = "throw"

\* try { await invoke("send-risk-notification") } catch { console.error }:
\* does the outcome of the notification make analyzeFile throw
NotifyThrows(outcome) == FALSE

Ev(op, e, r) == [op |-> op, eid |-> e, res |-> r]

(* ------------------------------ Init ----------------------------------- *)

\* values of the endpoint's variables while no request is being served
NoRequest == [auth |-> "none", body |-> [kind |-> "none", text |-> [raw |-> 0, pad |-> 0, alpha |-> FALSE]]]

NoVerdict == [credibility_score |-> 0, risk_level |-> "none"]

NoUpstream ==
  [kind |-> "none", status |-> 0, shape |-> "none", reply |-> << >>,
   verdict |-> NoVerdict, text |-> ""]

NoDetails ==
  [experience_consistency |-> "undefined", skills_alignment |-> "undefined",
   achievements_credibility |-> "undefined", overall_authenticity |-> "undefined"]

\* the result field of a response that carries no analysis
NoAnalysis ==
  [credibility_score |-> 0, risk_level |-> "none", summary |-> "none",
   flags |-> << >>, detailed_analysis |-> NoDetails]

NoResponse == [status |-> 0, error |-> "", result |-> NoAnalysis]

\* no request is in flight at the edge function
EndpointOff ==
  /\ request = NoRequest
  /\ apiKey = TRUE
  /\ epc = "off"
  /\ outbound = << >>
  /\ upstream = NoUpstream
  /\ response = NoResponse

NoLocals ==
  [eid |-> 0, file |-> "none", session |-> 0, resumeText |-> 0, analysisData |-> NoResult]

\* ResumeUpload as mounted: no file selected, no analysis running
SingleOff ==
  /\ selectedFile = "none"
  /\ isAnalyzing = FALSE
  /\ spc = "idle"
  /\ sv = NoLocals
  /\ sToast = ""

\* no score is shown
ViewOff ==
  /\ score = 0
  /\ view = "none"
  /\ colour = ""

NoFile == [type |-> "none", raw |-> 0, cleaned |-> 0, groups |-> << >>]

\* the extractor is not called on its own
ExtractOff ==
  /\ xfile = NoFile
  /\ xtext = -1

\* nothing is exported
CsvOff ==
  /\ csvStage = "off"
  /\ csvIn = << >>
  /\ csvOut = << >>
  /\ csvParsed = << >>

\* the history view is not mounted
HistoryOff ==
  /\ selectedForCompare = {}
  /\ riskFilter = "off"
  /\ dateFilter = "off"
  /\ searchQuery = "off"
  /\ compared = << >>
  /\ hToast = "off"

\* no function has answered
NoFnRes == [fn |-> "none", user |-> 0, status |-> 0, body |-> "none"]

\* the tables of the workspace and account functions, all empty
EmptyDb ==
  [users |-> {}, profiles |-> {}, user_roles |-> {}, resumes |-> {}, analysis_results |-> {},
   usage_logs |-> {}, team_workspaces |-> {}, workspace_members |-> {},
   pending_invitations |-> {}, shared_analyses |-> {}]

\* no workspace or account function is in use
AccountsOff ==
  /\ db = EmptyDb
  /\ fnRes = NoFnRes

\* the parts that stand apart from the uploads are not in use
OtherOff == CsvOff /\ HistoryOff /\ AccountsOff

Init ==
  /\ fileStatuses = << >>
  /\ isProcessing = FALSE
  /\ remainingAnalyses \in Quotas
  /\ dropFileStatuses = << >>
  /\ snapshot = << >>
  /\ pc = "idle"
  /\ i = 0
  /\ resumeText = 0
  /\ analysisData = NoResult
  /\ resumes = {}
  /\ analysis_results = {}
  /\ usage_logs = {}
  /\ nextId = 1
  /\ toast = ""
  /\ log = << >>
  /\ sessionUser = 0
  /\ authUser = 1
  /\ EndpointOff
  /\ SingleOff
  /\ ViewOff
  /\ ExtractOff
  /\ OtherOff

(* -------------------- adding and removing files ------------------------ *)

\* the files of one selection or one drop: one or two distinct files
FileLists ==
  {<<f>> : f \in Files} \cup UNION {{<<f, g>> : g \in Files \ {f}} : f \in Files}

\* the loop of validateAndAddFiles: files of an accepted type that are not in
\* the queue the closure sees, in order
ValidNew(files, seen) ==
  SelectSeq(files, LAMBDA f : f \in ValidFiles /\ ~AlreadyAdded(seen, f))

\* variant: the new entries are put in front of the queue
AddFiles_Front(prev, added) == added \o prev

\* setFileStatuses(prev => [...prev, ...validFiles])
AddFiles(prev, added) == prev \o added

\* validateAndAddFiles(files), run by a handler whose closure holds seen
validateAndAddFiles(files, seen) ==
  LET valid == ValidNew(files, seen)
      added == [k \in 1..Len(valid) |-> NewEntry(nextId + k - 1, valid[k])]
  IN /\ nextId + Len(valid) - 1 <= MaxAdds
     /\ fileStatuses' = AddFiles(fileStatuses, added)
     /\ nextId' = nextId + Len(valid)
     /\ UNCHANGED <<toast, isProcessing, nonBatchVars, sessionUser, remainingAnalyses, dropFileStatuses, snapshot,
                    pc, i, resumeText, analysisData, resumes, analysis_results,
                    usage_logs, log>>

\* onDrop of the drop zone: only the disabled prop gates it, and the handler
\* is memoized on [disabled], so it sees the queue of the render that made it
handleDrop ==
  /\ ~disabled
  /\ \E files \in FileLists : validateAndAddFiles(files, dropFileStatuses)

\* onChange of the file input, which is disabled while a run is in progress
handleFileSelect ==
  /\ ~disabled
  /\ ~isProcessing
  /\ \E files \in FileLists : validateAndAddFiles(files, fileStatuses)

\* the X button of a pending entry, rendered only while no run is in progress:
\* prev.filter((_, i) => i !== index)
removeFile ==
  /\ ~isProcessing
  /\ \E idx \in 1..Len(fileStatuses) :
       /\ fileStatuses[idx].status = "pending"
       /\ fileStatuses' = [k \in 1..(Len(fileStatuses) - 1) |->
                             IF k < idx THEN fileStatuses[k] ELSE fileStatuses[k + 1]]
  /\ UNCHANGED <<isProcessing, nonBatchVars, sessionUser, remainingAnalyses, dropFileStatuses, snapshot, pc, i,
                 resumeText, analysisData, resumes, analysis_results, usage_logs,
                 nextId, toast, log>>

\* the Clear all button, rendered only while no run is in progress
clearAll ==
  /\ ~isProcessing
  /\ Len(fileStatuses) > 0
  /\ fileStatuses' = << >>
  /\ UNCHANGED <<isProcessing, nonBatchVars, sessionUser, remainingAnalyses, dropFileStatuses, snapshot, pc, i,
                 resumeText, analysisData, resumes, analysis_results, usage_logs,
                 nextId, toast, log>>

(* ------------------------- the batch run ------------------------------- *)

\* id of the queue entry the loop is at
CurEid == snapshot[i].eid

\* variant: the analysis is requested before the resumes row is written
StepAfter_RequestFirst(step) ==
  CASE step = "extract" -> "invoke"
    [] step = "invoke" -> "insertResume"
    [] step = "insertResume" -> "insertResult"
    [] step = "insertResult" -> "logUsage"
    [] step = "logUsage" -> "notify"

\* the straight-line order of the awaits of analyzeFile
StepAfter(step) ==
  CASE step = "extract" -> "insertResume"
    [] step = "insertResume" -> "invoke"
    [] step = "invoke" -> "insertResult"
    [] step = "insertResult" -> "logUsage"
    [] step = "logUsage" -> "notify"

\* variant: handleAnalyzeAll has no finally clause
Finish_StillProcessing(fs, lg) ==
  /\ fileStatuses' = fs
  /\ log' = lg
  /\ i' = 0
  /\ pc' = "idle"
  /\ isProcessing' = isProcessing
  /\ toast' = "Bulk analysis complete"

\* end of handleAnalyzeAll after the loop: the completion notice, then finally
Finish(fs, lg) ==
  /\ fileStatuses' = fs
  /\ log' = lg
  /\ i' = 0
  /\ pc' = "idle"
  /\ isProcessing' = FALSE
  /\ toast' = "Bulk analysis complete"

\* the loop from index from on: skip the entries captured as not pending, mark
\* the next one analyzing and call analyzeFile, or leave the loop
LoopFrom(from, fs, lg) ==
  LET j == NextPending(snapshot, from)
  IN IF j = 0
       THEN Finish(fs, lg)
       ELSE /\ fileStatuses' = SetStatus(fs, j, "analyzing")
            /\ log' = lg
            /\ i' = j
            /\ pc' = "extract"
            /\ UNCHANGED <<isProcessing, toast>>

\* the end of one iteration: the delay unless the index is the last one
AfterFile(fs, lg) ==
  IF DelayAfter(i, Len(snapshot))
    THEN /\ fileStatuses' = fs
         /\ log' = Append(lg, Ev("delay", CurEid, "set"))
         /\ pc' = "delay"
         /\ UNCHANGED <<i, isProcessing, toast>>
    ELSE LoopFrom(i + 1, fs, lg)

\* variant: the loop body has no try/catch, the throw reaches the outer catch
FileFailed_OuterCatch(msg, lg) ==
  /\ fileStatuses' = fileStatuses
  /\ log' = lg
  /\ i' = 0
  /\ pc' = "idle"
  /\ isProcessing' = FALSE
  /\ toast' = "Analysis failed"
  /\ resumeText' = 0
  /\ analysisData' = NoResult

\* analyzeFile threw: the catch of the loop body
FileFailed(msg, lg) ==
  /\ AfterFile(SetError(fileStatuses, i, msg), lg)
  /\ resumeText' = 0
  /\ analysisData' = NoResult

\* variant: the saved row is stored in the entry but not handed to the parent
FileSucceeded_NoCallback(lg) ==
  /\ AfterFile(SetComplete(fileStatuses, i,
                           [id |-> CurEid, risk_level |-> analysisData.risk_level,
                            credibility_score |-> analysisData.credibility_score]),
               lg)
  /\ resumeText' = 0
  /\ analysisData' = NoResult

\* analyzeFile returned the saved row: status complete, then onAnalysisComplete
FileSucceeded(lg) ==
  /\ AfterFile(SetComplete(fileStatuses, i,
                           [id |-> CurEid, risk_level |-> analysisData.risk_level,
                            credibility_score |-> analysisData.credibility_score]),
               Append(lg, Ev("callback", CurEid, "ok")))
  /\ resumeText' = 0
  /\ analysisData' = NoResult

\* the click on the Analyze button, up to the first await
handleAnalyzeAll ==
  /\ ~isProcessing
  /\ ~disabled
  /\ PendingCount(fileStatuses) > 0
  /\ IF QuotaExceeded(PendingCount(fileStatuses), remainingAnalyses)
       THEN /\ toast' = "Not enough analyses"
            /\ UNCHANGED <<fileStatuses, isProcessing, snapshot, pc>>
       ELSE /\ isProcessing' = TRUE
            /\ snapshot' = fileStatuses
            /\ pc' = "getSession"
            /\ UNCHANGED <<fileStatuses, toast>>
  /\ UNCHANGED <<nonBatchVars, sessionUser, remainingAnalyses, dropFileStatuses, i, resumeText, analysisData,
                 resumes, analysis_results, usage_logs, nextId, log>>

\* supabase.auth.getSession() resolved
GetSession ==
  /\ pc = "getSession"
  /\ \E session \in {b \in BOOLEAN : b => authUser # 0} :
       IF session
         THEN /\ pc' = "profile"
              /\ sessionUser' = authUser
              /\ UNCHANGED <<isProcessing, toast>>
         ELSE \* throw, outer catch, finally
              /\ pc' = "idle"
              /\ isProcessing' = FALSE
              /\ toast' = "Analysis failed"
              /\ UNCHANGED sessionUser
  /\ UNCHANGED <<fileStatuses, nonBatchVars, remainingAnalyses, dropFileStatuses, snapshot, i,
                 resumeText, analysisData, resumes, analysis_results, usage_logs,
                 nextId, log>>

\* the profile query resolved: the loop starts
FetchProfile ==
  /\ pc = "profile"
  /\ LoopFrom(1, fileStatuses, log)
  /\ UNCHANGED <<nonBatchVars, sessionUser, remainingAnalyses, dropFileStatuses, snapshot, resumeText,
                 analysisData, resumes, analysis_results, usage_logs, nextId>>

\* extractTextFromFile resolved, then the minimum-length check
Extract ==
  /\ pc = "extract"
  /\ \E n \in TextLens :
       LET len == extractTextFromFile(FileOf(snapshot[i].file, n))
       IN IF TooShort(len)
            THEN FileFailed(TooShortMsg, Append(log, Ev("extract", CurEid, "short")))
            ELSE /\ resumeText' = len
                 /\ pc' = StepAfter("extract")
                 /\ log' = Append(log, Ev("extract", CurEid, "ok"))
                 /\ UNCHANGED <<fileStatuses, isProcessing, i, toast, analysisData>>
  /\ UNCHANGED <<nonBatchVars, sessionUser, remainingAnalyses, dropFileStatuses, snapshot, resumes,
                 analysis_results, usage_logs, nextId>>

\* the insert into resumes resolved
InsertResume ==
  /\ pc = "insertResume"
  /\ \E ok \in {b \in BOOLEAN : b => rls(sessionUser)} :
       IF ok
         THEN /\ resumes' = resumes \cup {[id |-> CurEid, user_id |-> sessionUser]}
              /\ pc' = StepAfter("insertResume")
              /\ log' = Append(log, Ev("insertResume", CurEid, "ok"))
              /\ UNCHANGED <<fileStatuses, isProcessing, i, toast, resumeText, analysisData>>
         ELSE /\ FileFailed("resumes insert failed", Append(log, Ev("insertResume", CurEid, "fail")))
              /\ UNCHANGED resumes
  /\ UNCHANGED <<nonBatchVars, sessionUser, remainingAnalyses, dropFileStatuses, snapshot, analysis_results,
                 usage_logs, nextId>>

\* functions.invoke("analyze-resume") resolved
Invoke ==
  /\ pc = "invoke"
  /\ \/ \E r \in Risks, sc \in Scores :
          /\ authUser # 0
          /\ analysisData' = [id |-> 0, risk_level |-> r, credibility_score |-> sc]
          /\ pc' = StepAfter("invoke")
          /\ log' = Append(log, Ev("invoke", CurEid, "ok"))
          /\ UNCHANGED <<fileStatuses, isProcessing, i, toast, resumeText>>
     \/ \* analysisError: a non-2xx reply or a transport failure
        FileFailed("Failed to analyze resume", Append(log, Ev("invoke", CurEid, "fail")))
     \/ \* analysisData.error
        FileFailed("analysis error", Append(log, Ev("invoke", CurEid, "fail")))
  /\ UNCHANGED <<nonBatchVars, sessionUser, remainingAnalyses, dropFileStatuses, snapshot, resumes,
                 analysis_results, usage_logs, nextId>>

\* the insert into analysis_results resolved
InsertResult ==
  /\ pc = "insertResult"
  /\ \E ok \in {b \in BOOLEAN : b => rls(sessionUser)} :
       IF ok
         THEN /\ analysis_results' = analysis_results \cup
                   {[id |-> CurEid, resume_id |-> CurEid, user_id |-> sessionUser,
                     risk_level |-> analysisData.risk_level,
                     credibility_score |-> analysisData.credibility_score]}
              /\ pc' = StepAfter("insertResult")
              /\ log' = Append(log, Ev("insertResult", CurEid, "ok"))
              /\ UNCHANGED <<fileStatuses, isProcessing, i, toast, resumeText, analysisData>>
         ELSE /\ FileFailed("analysis_results insert failed",
                            Append(log, Ev("insertResult", CurEid, "fail")))
              /\ UNCHANGED analysis_results
  /\ UNCHANGED <<nonBatchVars, sessionUser, remainingAnalyses, dropFileStatuses, snapshot, resumes,
                 usage_logs, nextId>>

\* the insert into usage_logs resolved; its error is not looked at
LogUsage ==
  /\ pc = "logUsage"
  /\ \E ok \in {b \in BOOLEAN : b => rls(sessionUser)} :
       LET lg == Append(log, Ev("logUsage", CurEid, IF ok THEN "ok" ELSE "fail"))
       IN /\ usage_logs' = IF ok THEN usage_logs \cup {CurEid} ELSE usage_logs
          /\ IF ShouldNotify(analysisData.risk_level)
               THEN /\ pc' = StepAfter("logUsage")
                    /\ log' = lg
                    /\ UNCHANGED <<fileStatuses, isProcessing, i, toast, resumeText, analysisData>>
               ELSE FileSucceeded(lg)
  /\ UNCHANGED <<nonBatchVars, sessionUser, remainingAnalyses, dropFileStatuses, snapshot, resumes,
                 analysis_results, nextId>>

\* how functions.invoke("send-risk-notification") can end
NotifyOutcomes == {"ok", "error", "throw"}

\* functions.invoke("send-risk-notification") resolved or rejected
Notify ==
  /\ pc = "notify"
  /\ \E outcome \in NotifyOutcomes :
       LET lg == Append(log, Ev("notify", CurEid, outcome))
       IN IF NotifyThrows(outcome)
            THEN FileFailed("notification failed", lg)
            ELSE FileSucceeded(lg)
  /\ UNCHANGED <<nonBatchVars, sessionUser, remainingAnalyses, dropFileStatuses, snapshot, resumes,
                 analysis_results, usage_logs, nextId>>

\* the timer of the delay between two files fired
Delay ==
  /\ pc = "delay"
  /\ LoopFrom(i + 1, fileStatuses, log)
  /\ UNCHANGED <<nonBatchVars, sessionUser, remainingAnalyses, dropFileStatuses, snapshot, resumeText,
                 analysisData, resumes, analysis_results, usage_logs, nextId>>

Next ==
  \/ handleDrop
  \/ handleFileSelect
  \/ removeFile
  \/ clearAll
  \/ handleAnalyzeAll
  \/ GetSession
  \/ FetchProfile
  \/ Extract
  \/ InsertResume
  \/ Invoke
  \/ InsertResult
  \/ LogUsage
  \/ Notify
  \/ Delay

Spec == Init /\ [][Next]_vars

(* --------------------------- type invariant ---------------------------- *)

TypeOK ==
  /\ isProcessing \in BOOLEAN
  /\ pc \in {"idle", "getSession", "profile", "extract", "insertResume", "invoke",
             "insertResult", "logUsage", "notify", "delay"}
  /\ \A k \in 1..Len(fileStatuses) :
       fileStatuses[k].status \in {"pending", "analyzing"} \cup Terminal
  /\ isProcessing <=> pc # "idle"

(* ------------------- definitions used by the properties ---------------- *)

Positions(fs) == 1..Len(fs)

\* the entries of the captured queue that the run has to process
Batch == SelectSeq(snapshot, LAMBDA e : e.status = "pending")

\* the step that ends a run whose loop was executed
RunEnds == isProcessing /\ ~isProcessing' /\ toast' = "Bulk analysis complete"

\* the step that ends a run that found no session
RunAborts == isProcessing /\ ~isProcessing' /\ toast' = "Analysis failed"

\* ids of the rows of the table resumes
ResumeIds == {row.id : row \in resumes}

Logged(lg, op, e, r) == \E n \in 1..Len(lg) : lg[n] = Ev(op, e, r)

LoggedOp(lg, op, e) == \E n \in 1..Len(lg) : lg[n].op = op /\ lg[n].eid = e

\* a step of its pipeline failed for entry e
PipelineOps == {"extract", "insertResume", "invoke", "insertResult"}

WriteOps == {"insertResume", "insertResult", "logUsage"}

Failed(lg, ops, e) ==
  \E n \in 1..Len(lg) : lg[n].eid = e /\ lg[n].op \in ops /\ lg[n].res \in {"short", "fail"}

\* the statuses a FileStatus may move between in one step
LegalMove(a, b) ==
  \/ a = b
  \/ a = "pending" /\ b = "analyzing"
  \/ a = "analyzing" /\ b \in Terminal

(* ------------------------------ C1 ------------------------------------- *)

\* C1: the status of a queue entry only changes pending -> analyzing ->
\* complete or error: in every step, an entry that stays in the queue keeps its
\* status or makes one of these moves (so a complete or error entry never
\* changes and none becomes terminal without being analyzing), and an entry
\* that enters the queue is pending.
C1_StatusOrder ==
  [][\A m \in Positions(fileStatuses') :
       IF \E k \in Positions(fileStatuses) : fileStatuses[k].eid = fileStatuses'[m].eid
         THEN \A k \in Positions(fileStatuses) :
                fileStatuses[k].eid = fileStatuses'[m].eid
                  => LegalMove(fileStatuses[k].status, fileStatuses'[m].status)
         ELSE fileStatuses'[m].status = "pending"]_vars

\* a later run is at a file while the queue holds a terminal entry of an earlier run
C1_Witness ==
  /\ isProcessing
  /\ \E k \in Positions(snapshot) : snapshot[k].status \in Terminal
  /\ \E m \in Positions(fileStatuses) : fileStatuses[m].status = "analyzing"

(* ------------------------------ C2 ------------------------------------- *)

\* C2: when more files are pending than remainingAnalyses allows, Analyze-all
\* starts nothing: no step taken from such an idle state starts a run, makes a
\* call, writes a row or changes the status of an entry.
C2_QuotaRejects ==
  [][(~isProcessing /\ PendingCount(fileStatuses) > remainingAnalyses)
       => /\ ~isProcessing'
          /\ pc' = "idle"
          /\ log' = log
          /\ <<resumes, analysis_results, usage_logs>>' = <<resumes, analysis_results, usage_logs>>
          /\ \A k \in Positions(fileStatuses), m \in Positions(fileStatuses') :
               fileStatuses[k].eid = fileStatuses'[m].eid
                 => fileStatuses'[m].status = fileStatuses[k].status]_vars

\* Analyze-all was rejected for the queue as it is
C2_Witness ==
  /\ toast = "Not enough analyses"
  /\ ~isProcessing
  /\ PendingCount(fileStatuses) > remainingAnalyses
  /\ \A k \in Positions(fileStatuses) : fileStatuses[k].status = "pending"

(* ------------------------------ C3 ------------------------------------- *)

AtMostOneAnalyzing ==
  Cardinality({k \in Positions(fileStatuses) : fileStatuses[k].status = "analyzing"}) <= 1

\* C3: files are processed one at a time in queue order: at most one entry is
\* analyzing in every state, and in a step that makes an entry analyzing every
\* entry before it in the queue is complete or error.
C3_Sequential ==
  /\ []AtMostOneAnalyzing
  /\ [][\A m \in Positions(fileStatuses') :
          (/\ fileStatuses'[m].status = "analyzing"
           /\ m \in Positions(fileStatuses)
           /\ fileStatuses[m].status # "analyzing")
            => \A k \in 1..(m - 1) : fileStatuses'[k].status \in Terminal]_vars

\* the second file of a batch is analyzing after the first one was processed
C3_Witness ==
  /\ Len(Batch) >= 2
  /\ \E m \in Positions(fileStatuses) :
       /\ fileStatuses[m].status = "analyzing"
       /\ fileStatuses[m].eid = Batch[2].eid
       /\ \E k \in 1..(m - 1) : fileStatuses[k].eid = Batch[1].eid

(* ------------------------------ C4 ------------------------------------- *)

BatchEids == {Batch[k].eid : k \in 1..Len(Batch)}

\* of the batch, only entry e had a failure, and it was a failed write
OnlyWriteFailureAt(lg, e) ==
  /\ Failed(lg, WriteOps, e)
  /\ ~Failed(lg, {"extract", "invoke"}, e)
  /\ \A x \in BatchEids \ {e} : ~Failed(lg, PipelineOps \cup WriteOps, x)

ErrorsOfBatch(fs) ==
  {m \in Positions(fs) : fs[m].eid \in BatchEids /\ fs[m].status = "error"}

\* C4: when a run ends in which exactly one file of the batch had a failure
\* and that failure was a failed persistence write (resumes, analysis_results
\* or usage_logs), every other file of the batch is complete and exactly one
\* file of the batch is in error.
C4_OneWriteFailure ==
  [][RunEnds =>
       \A e \in BatchEids :
         OnlyWriteFailureAt(log', e) =>
           /\ \A m \in Positions(fileStatuses') :
                (fileStatuses'[m].eid \in BatchEids \ {e})
                  => fileStatuses'[m].status = "complete"
           /\ Cardinality(ErrorsOfBatch(fileStatuses')) = 1]_vars

(* ------------------------------ C5 ------------------------------------- *)

\* the n-th logged call is preceded by the call op for the same entry with result r
PrecededBy(lg, n, op, r) == \E j \in 1..(n - 1) : lg[j] = Ev(op, lg[n].eid, r)

\* C5 as stated: no write (resumes, analysis_results, usage_logs) for a file
\* happens before analyze-resume returned a result for that file, and a file
\* whose analysis request failed has no persisted row.
C5_NoWriteBeforeAnalysis ==
  /\ \A n \in 1..Len(log) : log[n].op \in WriteOps => PrecededBy(log, n, "invoke", "ok")
  /\ \A n \in 1..Len(log) :
       (log[n].op = "invoke" /\ log[n].res = "fail") => log[n].eid \notin ResumeIds

\* C5 as amended: the steps of a file run in the order extraction,
\* minimum-length check, resumes insert, analysis request, analysis_results
\* insert, usage_logs insert: each call is made only after the one before it
\* succeeded for the same file, so a file whose analysis request failed leaves
\* its resumes row but no analysis_results row and no usage_logs row.
C5_StepOrder ==
  /\ \A n \in 1..Len(log) :
       /\ log[n].op = "insertResume" =>
            PrecededBy(log, n, "extract", "ok") /\ ~\E j \in 1..(n - 1) :
                                                      log[j].op = "invoke" /\ log[j].eid = log[n].eid
       /\ log[n].op = "invoke" => PrecededBy(log, n, "insertResume", "ok")
       /\ log[n].op = "insertResult" => PrecededBy(log, n, "invoke", "ok")
       /\ log[n].op = "logUsage" => PrecededBy(log, n, "insertResult", "ok")
  /\ \A n \in 1..Len(log) :
       (log[n].op = "invoke" /\ log[n].res = "fail") =>
         /\ log[n].eid \in ResumeIds
         /\ log[n].eid \notin usage_logs
         /\ ~\E row \in analysis_results : row.resume_id = log[n].eid

\* the analysis request of a file failed and the run went on to finish it
C5_Witness ==
  \E m \in Positions(fileStatuses) :
    /\ fileStatuses[m].status = "error"
    /\ Logged(log, "invoke", fileStatuses[m].eid, "fail")
    /\ fileStatuses[m].eid \in ResumeIds

(* ------------------------------ C6 ------------------------------------- *)

\* the run is between the analysis_results insert and the end of analyzeFile for e
Finishing(e) == pc \in {"logUsage", "notify"} /\ snapshot[i].eid = e

\* C6: a file whose analysis_results row was written never ends in error: its
\* entry is analyzing until analyzeFile returns and complete with the saved
\* row as result afterwards, however the notification call ended.
C6_NotificationSwallowed ==
  \A m \in Positions(fileStatuses) :
    (\E row \in analysis_results : row.id = fileStatuses[m].eid) =>
      IF Finishing(fileStatuses[m].eid)
        THEN fileStatuses[m].status = "analyzing"
        ELSE /\ fileStatuses[m].status = "complete"
             /\ fileStatuses[m].result.id = fileStatuses[m].eid
             /\ fileStatuses[m].error = NoError

\* the notification of one file threw, that of another returned an error
C6_Witness ==
  \E m, k \in Positions(fileStatuses) :
    /\ fileStatuses[m].status = "complete"
    /\ fileStatuses[k].status = "complete"
    /\ Logged(log, "notify", fileStatuses[m].eid, "throw")
    /\ Logged(log, "notify", fileStatuses[k].eid, "error")

(* ------------------------------ C7 ------------------------------------- *)

\* C7: the notification is sent for a file only after its analysis_results row
\* was written and only if that row is high risk, at most once per file; and
\* every file that is complete with a high-risk result had it sent.
C7_NotifyIffHigh ==
  /\ \A n \in 1..Len(log) :
       log[n].op = "notify" =>
         /\ PrecededBy(log, n, "insertResult", "ok")
         /\ \E row \in analysis_results : row.id = log[n].eid /\ row.risk_level = "high"
         /\ \A j \in 1..Len(log) : (log[j].op = "notify" /\ log[j].eid = log[n].eid) => j = n
  /\ \A m \in Positions(fileStatuses) :
       fileStatuses[m].status = "complete" =>
         (fileStatuses[m].result.risk_level = "high"
            <=> LoggedOp(log, "notify", fileStatuses[m].eid))

\* a batch with a high-risk file that was notified and a low-risk one that was not
C7_Witness ==
  \E m, k \in Positions(fileStatuses) :
    /\ fileStatuses[m].status = "complete"
    /\ fileStatuses[m].result.risk_level = "high"
    /\ LoggedOp(log, "notify", fileStatuses[m].eid)
    /\ fileStatuses[k].status = "complete"
    /\ fileStatuses[k].result.risk_level = "low"

(* ------------------------------ C8 ------------------------------------- *)

\* C8: the 'Bulk analysis complete' notice is emitted only in a state where
\* every entry of the queue is complete or error.
C8_CompleteMeansAllTerminal ==
  [][RunEnds =>
       \A m \in Positions(fileStatuses') : fileStatuses'[m].status \in Terminal]_vars

(* ------------------------------ C9 ------------------------------------- *)

C9_LaterRun ==
  /\ ~isProcessing
  /\ toast = "Bulk analysis complete"
  /\ Len(Batch) = 1
  /\ \E k \in Positions(snapshot) : snapshot[k].status \in Terminal
  /\ \E m \in Positions(fileStatuses) :
       fileStatuses[m].eid = Batch[1].eid /\ fileStatuses[m].status \in Terminal

(* ------------------------------ C10 ------------------------------------ *)

C10_AbortWitness ==
  /\ ~isProcessing
  /\ toast = "Analysis failed"
  /\ \E m \in Positions(fileStatuses) : fileStatuses[m].status = "pending"

(* ------------------------------ C11 ------------------------------------ *)

\* C11: a file for which one of the three writes (resumes, analysis_results,
\* usage_logs) failed is in status error.
C11_WriteFailureIsError ==
  \A m \in Positions(fileStatuses) :
    Failed(log, WriteOps, fileStatuses[m].eid) => fileStatuses[m].status = "error"

(* ------------------------------ C12 ------------------------------------ *)

\* C12: in every state a complete entry has a result and no error message, an
\* error entry has an error message and no result, and a pending or analyzing
\* entry has neither.
C12_StatusFields ==
  \A m \in Positions(fileStatuses) :
    LET e == fileStatuses[m]
    IN /\ e.status = "complete" => (e.result # NoResult /\ e.error = NoError)
       /\ e.status = "error" => (e.error # NoError /\ e.result = NoResult)
       /\ e.status \in {"pending", "analyzing"} => (e.result = NoResult /\ e.error = NoError)

\* the queue holds a complete entry with its result and an error entry with its message
C12_Witness ==
  \E m, k \in Positions(fileStatuses) :
    /\ fileStatuses[m].status = "complete"
    /\ fileStatuses[m].result.id = fileStatuses[m].eid
    /\ fileStatuses[k].status = "error"
    /\ fileStatuses[k].error # NoError

(* ================= the analyze-resume edge function ==================== *)

\* bound: number of tokens of a reply of the AI gateway
MaxReplyLen == 4

\* minimum length of the trimmed text accepted by the endpoint
MinTrimmedLen == 50

\* length the text is cut to before it is sent to the AI gateway
maxLength == 50000

ERROR_MESSAGES ==
  [INVALID_INPUT |-> "Invalid or insufficient resume content provided",
   RATE_LIMITED |-> "Too many requests. Please try again later.",
   CREDITS_DEPLETED |-> "Service temporarily unavailable. Please try again later.",
   PROCESSING_FAILED |-> "Unable to process resume. Please try again.",
   UNAUTHORIZED |-> "Authentication required"]

\* the text of an error of the AI gateway or of a thrown exception
UpstreamErrorText == "upstream error text"

\* Authorization header of a request: absent, a token getUser rejects, a token
\* getUser accepts
Auths == {"missing", "invalid", "valid"}

\* a resumeText string: its length, the whitespace at its two ends, and whether
\* it holds a run of ten letters
Texts ==
  {t \in [raw : {0, 49, 50, 52, 50003}, pad : {0, 3}, alpha : BOOLEAN] :
     /\ t.pad <= t.raw
     /\ t.alpha => t.raw - t.pad >= 10}

NoText == [raw |-> 0, pad |-> 0, alpha |-> FALSE]

\* request bodies: not JSON, JSON without resumeText, resumeText not a string,
\* resumeText a string
Bodies ==
  {[kind |-> k, text |-> NoText] : k \in {"unreadable", "missing", "nonstring"}}
    \cup {[kind |-> "string", text |-> t] : t \in Texts}

Requests == [auth : Auths, body : Bodies]

\* resumeText.trim().length
trim(t) == t.raw - t.pad

\* the result the reply carries when it parses and its members are the expected ones
Verdicts == [credibility_score : {30, 85}, risk_level : {"low", "high"}]

ModelDetails ==
  [experience_consistency |-> "model text", skills_alignment |-> "model text",
   achievements_credibility |-> "model text", overall_authenticity |-> "model text"]

\* the object a reply {m} parses to
Analysis(v) ==
  [credibility_score |-> v.credibility_score, risk_level |-> v.risk_level,
   summary |-> "model text", flags |-> << >>, detailed_analysis |-> ModelDetails]

\* the object {} : every field read from it is undefined
EmptyObject ==
  [credibility_score |-> -1, risk_level |-> "undefined", summary |-> "undefined",
   flags |-> << >>, detailed_analysis |-> NoDetails]

\* the default analysis used when the reply does not parse
Fallback ==
  [credibility_score |-> 50, risk_level |-> "medium",
   summary |-> "Unable to fully analyze the resume. The content may be incomplete or in an unusual format.",
   flags |-> << [category |-> "Analysis", severity |-> "low",
                 description |-> "Resume format made full analysis difficult"] >>,
   detailed_analysis |->
     [experience_consistency |-> "Unable to assess", skills_alignment |-> "Unable to assess",
      achievements_credibility |-> "Unable to assess",
      overall_authenticity |-> "Requires manual review"]]

\* tokens of the content of a reply: the two braces, the members of an object
\* (ending where a value or the closing brace follows), and any other text
Tokens == {"{", "}", "m", "t"}

RECURSIVE SeqsUpTo(_)
SeqsUpTo(n) ==
  IF n = 0 THEN {<< >>}
  ELSE LET shorter == SeqsUpTo(n - 1)
       IN shorter \cup {Append(q, tk) : q \in {r \in shorter : Len(r) = n - 1}, tk \in Tokens}

Replies == SeqsUpTo(MaxReplyLen)

\* JSON.parse accepts the tokens as one object: {} or {m} or {m <object> }
RECURSIVE IsObject(_)
IsObject(q) ==
  \/ q = <<"{", "}">>
  \/ q = <<"{", "m", "}">>
  \/ /\ Len(q) >= 5
     /\ q[1] = "{" /\ q[2] = "m" /\ q[Len(q)] = "}"
     /\ IsObject(SubSeq(q, 3, Len(q) - 1))

\* aiResponse.match(/\{[\s\S]*\}/): from the first { to the last } after it
jsonMatch(q) ==
  LET opens == {a \in 1..Len(q) : q[a] = "{"}
      first == CHOOSE a \in opens : \A b \in opens : a <= b
      closes == {b \in 1..Len(q) : q[b] = "}" /\ b > first}
      last == CHOOSE b \in closes : \A c \in closes : c <= b
  IN IF opens = {} THEN << >>
     ELSE IF closes = {} THEN << >>
     ELSE SubSeq(q, first, last)

HasMembers(q) == \E a \in 1..Len(q) : q[a] = "m"

Up(kind, status, shape, reply, verdict, text) ==
  [kind |-> kind, status |-> status, shape |-> shape, reply |-> reply,
   verdict |-> verdict, text |-> text]

\* what the AI gateway can do with a call: fetch throws; a status that is not
\* ok; status 200 with a body that is not JSON, or without choices, or with a
\* chat completion whose content is a reply
Upstreams ==
  {Up("throw", 0, "none", << >>, NoVerdict, UpstreamErrorText)}
    \cup {Up("http", st, "error", << >>, NoVerdict, UpstreamErrorText) : st \in {429, 402, 500, 503}}
    \cup {Up("http", 200, sh, << >>, NoVerdict, UpstreamErrorText) : sh \in {"badjson", "nochoices"}}
    \cup UNION {{Up("http", 200, "chat", q, v, "") :
                   v \in IF HasMembers(q) THEN Verdicts ELSE {NoVerdict}} : q \in Replies}

\* JSON.parse(jsonMatch[0]) when the match exists and parses
parsed(u) ==
  IF HasMembers(jsonMatch(u.reply)) THEN Analysis(u.verdict) ELSE EmptyObject

\* the body of an error response; detail is what the handler writes to its log
errorBody_Leaks(code, detail) == detail

errorBody(code, detail) == ERROR_MESSAGES[code]

errorResponse(status, code, detail) ==
  [status |-> status, error |-> errorBody(code, detail), result |-> NoAnalysis]

okResponse(result) == [status |-> 200, error |-> "", result |-> result]

\* the variant of the catch of the parse that reports a processing failure
parseErrorResponse_Hard(u) == errorResponse(500, "PROCESSING_FAILED", "No JSON found in response")

\* the catch of the parse: the default analysis is returned
parseErrorResponse(u) == okResponse(Fallback)

\* the response to a chat completion
analysisResponse(u) ==
  LET m == jsonMatch(u.reply)
  IN IF m # << >> /\ IsObject(m) THEN okResponse(parsed(u)) ELSE parseErrorResponse(u)

\* the mapping of a status of the AI gateway that is not ok
gatewayErrorResponse(u) ==
  IF u.status = 429 THEN errorResponse(429, "RATE_LIMITED", u.text)
  ELSE IF u.status = 402 THEN errorResponse(402, "CREDITS_DEPLETED", u.text)
  ELSE errorResponse(500, "PROCESSING_FAILED", u.text)

\* processedText: the trimmed text cut to maxLength
processedText(t) == IF trim(t) > maxLength THEN maxLength ELSE trim(t)

\* the validation of the body fails: the variant that looks at the raw length
invalidInput_Untrimmed(b) ==
  \/ b.kind \in {"missing", "nonstring"}
  \/ b.text.raw = 0
  \/ b.text.raw < MinTrimmedLen
  \/ ~b.text.alpha

\* the validation of the body fails
invalidInput(b) ==
  \/ b.kind \in {"missing", "nonstring"}
  \/ b.text.raw = 0
  \/ trim(b.text) < MinTrimmedLen
  \/ ~b.text.alpha

batchVars == <<fileStatuses, isProcessing, remainingAnalyses, dropFileStatuses,
               snapshot, pc, i, resumeText, analysisData, resumes,
               analysis_results, usage_logs, nextId, toast, log, sessionUser>>

\* the variables the edge function never touches
nonEndpointVars == <<batchVars, singleVars, viewVars, extractVars, otherVars, authUser>>

\* the handler returns
respond(r) ==
  /\ response' = r
  /\ epc' = "done"

\* entry of the handler: the Authorization header is looked at
serve ==
  /\ epc = "start"
  /\ IF request.auth = "missing"
       THEN respond(errorResponse(401, "UNAUTHORIZED", "Missing authorization header"))
       ELSE epc' = "getUser" /\ UNCHANGED response
  /\ UNCHANGED <<request, apiKey, outbound, upstream, nonEndpointVars>>

\* await supabaseClient.auth.getUser() resolves
getUser ==
  /\ epc = "getUser"
  /\ IF request.auth = "invalid"
       THEN respond(errorResponse(401, "UNAUTHORIZED", "Invalid or expired authentication token"))
       ELSE epc' = "readBody" /\ UNCHANGED response
  /\ UNCHANGED <<request, apiKey, outbound, upstream, nonEndpointVars>>

\* await req.json() settles; validation; the call of the AI gateway is issued
readBody ==
  /\ epc = "readBody"
  /\ IF request.body.kind = "unreadable"
       THEN respond(errorResponse(500, "PROCESSING_FAILED", "body is not JSON"))
            /\ UNCHANGED outbound
     ELSE IF invalidInput(request.body)
       THEN respond(errorResponse(400, "INVALID_INPUT", ""))
            /\ UNCHANGED outbound
     ELSE IF ~apiKey
       THEN respond(errorResponse(500, "PROCESSING_FAILED", "LOVABLE_API_KEY is not configured"))
            /\ UNCHANGED outbound
     ELSE /\ outbound' = Append(outbound, processedText(request.body.text))
          /\ epc' = "fetch"
          /\ UNCHANGED response
  /\ UNCHANGED <<request, apiKey, upstream, nonEndpointVars>>

\* await fetch(...) settles
fetchGateway ==
  /\ epc = "fetch"
  /\ \E u \in Upstreams :
       /\ upstream' = u
       /\ IF u.kind = "throw"
            THEN respond(errorResponse(500, "PROCESSING_FAILED", u.text))
          ELSE IF u.status # 200
            THEN respond(gatewayErrorResponse(u))
          ELSE epc' = "reply" /\ UNCHANGED response
  /\ UNCHANGED <<request, apiKey, outbound, nonEndpointVars>>

\* await response.json() settles; the content is read and parsed
readReply ==
  /\ epc = "reply"
  /\ IF upstream.shape # "chat"
       THEN respond(errorResponse(500, "PROCESSING_FAILED", upstream.text))
       ELSE respond(analysisResponse(upstream))
  /\ UNCHANGED <<request, apiKey, outbound, upstream, nonEndpointVars>>

\* the batch component is not mounted
BatchOff ==
  /\ fileStatuses = << >>
  /\ isProcessing = FALSE
  /\ remainingAnalyses = 9999
  /\ dropFileStatuses = << >>
  /\ snapshot = << >>
  /\ pc = "idle"
  /\ i = 0
  /\ resumeText = 0
  /\ analysisData = NoResult
  /\ resumes = {}
  /\ analysis_results = {}
  /\ usage_logs = {}
  /\ nextId = 1
  /\ toast = ""
  /\ log = << >>
  /\ sessionUser = 0

\* one request arrives at the edge function
InitEndpoint ==
  /\ BatchOff
  /\ SingleOff
  /\ ViewOff
  /\ ExtractOff
  /\ OtherOff
  /\ authUser = 1
  /\ request \in Requests
  /\ apiKey \in BOOLEAN
  /\ epc = "start"
  /\ outbound = << >>
  /\ upstream = NoUpstream
  /\ response = NoResponse

NextEndpoint ==
  \/ serve
  \/ getUser
  \/ readBody
  \/ fetchGateway
  \/ readReply

SpecEndpoint == InitEndpoint /\ [][NextEndpoint]_vars

TypeOKEndpoint ==
  /\ request \in Requests
  /\ epc \in {"start", "getUser", "readBody", "fetch", "reply", "done"}
  /\ upstream \in Upstreams \cup {NoUpstream}
  /\ Len(outbound) <= 1
  /\ response.status \in {0, 200, 400, 401, 402, 429, 500}

(* ------------------- properties of the edge function ------------------- *)

\* the request carries a text whose trimmed length is below the minimum
ShortText == request.body.kind = "string" /\ trim(request.body.text) < 50

Rejected(status, message) ==
  /\ epc = "done"
  /\ response.status = status
  /\ response.error = message
  /\ response.result = NoAnalysis

\* C13 as stated: every request whose text has a trimmed length below 50 is
\* rejected with the insufficient-content error, and no call of the external
\* model is issued for it.
C13_ShortTextRejected ==
  ShortText =>
    /\ outbound = << >>
    /\ epc = "done" => Rejected(400, "Invalid or insufficient resume content provided")

\* C13 amended: no call of the external model is issued for a request whose
\* text has a trimmed length below 50; when the request is authenticated it is
\* rejected with the insufficient-content error, and when it is not it is
\* rejected with the authentication error before its text is looked at.
C13_ShortTextRejectedAfterAuth ==
  ShortText =>
    /\ outbound = << >>
    /\ (epc = "done" /\ request.auth = "valid") =>
         Rejected(400, "Invalid or insufficient resume content provided")
    /\ (epc = "done" /\ request.auth # "valid") => Rejected(401, "Authentication required")

\* an authenticated request whose text is 52 characters long, 49 when trimmed,
\* has been rejected while the API key was configured
C13_Witness ==
  /\ ShortText
  /\ request.auth = "valid"
  /\ request.body.text.raw >= 50
  /\ request.body.text.alpha
  /\ apiKey
  /\ Rejected(400, "Invalid or insufficient resume content provided")

\* no run of tokens of the reply is a JSON object
NoObjectIn(q) == \A a, b \in 1..Len(q) : ~IsObject(SubSeq(q, a, b))

\* the gateway answered with a chat completion whose content cannot be parsed
UnparseableReply == epc = "done" /\ upstream.shape = "chat" /\ NoObjectIn(upstream.reply)

\* the response is a success carrying the fixed fallback up to the sub-assessments
FallbackAnswered ==
  /\ response.status = 200
  /\ response.error = ""
  /\ response.result.credibility_score = 50
  /\ response.result.risk_level = "medium"
  /\ response.result.summary =
       "Unable to fully analyze the resume. The content may be incomplete or in an unusual format."
  /\ Len(response.result.flags) = 1
  /\ response.result.flags[1].category = "Analysis"
  /\ response.result.flags[1].severity = "low"

SubAssessments ==
  {"experience_consistency", "skills_alignment", "achievements_credibility",
   "overall_authenticity"}

\* C14 as stated: for every reply that cannot be parsed as JSON the endpoint
\* answers successfully with the fixed fallback: score 50, risk medium, the
\* generic summary, one low-severity Analysis flag, and Unable to assess for
\* all four sub-assessments.
C14_FallbackAllUnableToAssess ==
  UnparseableReply =>
    /\ FallbackAnswered
    /\ \A f \in SubAssessments : response.result.detailed_analysis[f] = "Unable to assess"

\* C14 amended: for every reply that cannot be parsed as JSON the endpoint
\* answers successfully with the fixed fallback: score 50, risk medium, the
\* generic summary, one low-severity Analysis flag, Unable to assess for the
\* three sub-assessments experience consistency, skills alignment and
\* achievements credibility, and Requires manual review for overall authenticity.
C14_FallbackOnUnparseable ==
  UnparseableReply =>
    /\ FallbackAnswered
    /\ \A f \in SubAssessments \ {"overall_authenticity"} :
         response.result.detailed_analysis[f] = "Unable to assess"
    /\ response.result.detailed_analysis["overall_authenticity"] = "Requires manual review"

\* a reply with an opening and a closing brace around text that is not an
\* object has been answered with the fallback
C14_Witness ==
  /\ UnparseableReply
  /\ upstream.reply = <<"{", "t", "}">>
  /\ response = okResponse(Fallback)

\* the request passed authentication and validation
ValidRequest ==
  /\ request.auth = "valid"
  /\ request.body.kind = "string"
  /\ trim(request.body.text) >= 50
  /\ request.body.text.alpha

\* a failure of the gateway other than the statuses 429 and 402, or a failure
\* inside the handler
OtherFailure ==
  \/ upstream.kind = "throw"
  \/ upstream.kind = "http" /\ upstream.status \notin {200, 429, 402}
  \/ upstream.kind = "http" /\ upstream.status = 200 /\ upstream.shape # "chat"
  \/ request.auth = "valid" /\ request.body.kind = "unreadable"
  \/ ValidRequest /\ ~apiKey

\* C15: missing or invalid authentication is answered with Authentication
\* required (401), gateway status 429 with the rate-limit message (429),
\* gateway status 402 with the quota message (402), every other failure of the
\* gateway or of the handler with the one processing-failure message (500), and
\* no response carries the text of the gateway's error.
C15_FailureMapping ==
  epc = "done" =>
    /\ request.auth \in {"missing", "invalid"} => Rejected(401, "Authentication required")
    /\ upstream.status = 429 => Rejected(429, "Too many requests. Please try again later.")
    /\ upstream.status = 402 =>
         Rejected(402, "Service temporarily unavailable. Please try again later.")
    /\ OtherFailure => Rejected(500, "Unable to process resume. Please try again.")
    /\ response.error # UpstreamErrorText
    /\ response.result.summary # UpstreamErrorText

\* the gateway answered 503 with an error text and the caller got the
\* processing-failure message
C15_Witness ==
  /\ upstream.status = 503
  /\ upstream.text = UpstreamErrorText
  /\ Rejected(500, "Unable to process resume. Please try again.")

\* the gateway answered 429 and the caller got the rate-limit message
C15_RateLimited == upstream.status = 429 /\ Rejected(429, "Too many requests. Please try again later.")

(* ========================= the score views ============================= *)

\* largest credibility score the table analysis_results accepts
MaxScore == 100

\* AnalysisResult.getScoreColor
AnalysisResult_getScoreColor(sc) ==
  IF sc >= 80 THEN "text-green-600"
  ELSE IF sc >= 50 THEN "text-yellow-600"
  ELSE "text-red-600"

\* AnalysisResult.getProgressColor
AnalysisResult_getProgressColor(sc) ==
  IF sc >= 80 THEN "bg-green-500"
  ELSE IF sc >= 50 THEN "bg-yellow-500"
  ELSE "bg-red-500"

\* AnalysisHistory.getScoreColor
AnalysisHistory_getScoreColor(sc) ==
  IF sc >= 80 THEN "text-green-600"
  ELSE IF sc >= 50 THEN "text-yellow-600"
  ELSE "text-red-600"

\* the variant of ComparisonView.getScoreColor whose upper band starts above 80
ComparisonView_getScoreColor_Above(sc) ==
  IF sc > 80 THEN "text-green-600"
  ELSE IF sc >= 50 THEN "text-yellow-600"
  ELSE "text-red-600"

\* ComparisonView.getScoreColor
ComparisonView_getScoreColor(sc) ==
  IF sc >= 80 THEN "text-green-600"
  ELSE IF sc >= 50 THEN "text-yellow-600"
  ELSE "text-red-600"

\* a view renders the score
render(v, c) ==
  /\ view' = v
  /\ colour' = c
  /\ UNCHANGED <<score, batchVars, endpointVars, singleVars, extractVars, otherVars, authUser>>

renderAnalysisResult == render("AnalysisResult", AnalysisResult_getScoreColor(score))

renderProgress == render("AnalysisResult.progress", AnalysisResult_getProgressColor(score))

renderAnalysisHistory == render("AnalysisHistory", AnalysisHistory_getScoreColor(score))

renderComparisonView == render("ComparisonView", ComparisonView_getScoreColor(score))

\* a stored analysis with some score is about to be shown
InitViews ==
  /\ BatchOff
  /\ SingleOff
  /\ EndpointOff
  /\ ExtractOff
  /\ OtherOff
  /\ authUser = 1
  /\ score \in 0..MaxScore
  /\ view = "none"
  /\ colour = ""

NextViews ==
  \/ renderAnalysisResult
  \/ renderProgress
  \/ renderAnalysisHistory
  \/ renderComparisonView

SpecViews == InitViews /\ [][NextViews]_vars

\* the band a class stands for
BandOfClass(c) ==
  IF c \in {"text-green-600", "bg-green-500"} THEN "low"
  ELSE IF c \in {"text-yellow-600", "bg-yellow-500"} THEN "medium"
  ELSE IF c \in {"text-red-600", "bg-red-500"} THEN "high"
  ELSE "none"

\* C18: for every score from 0 to 100 the result view, the history list and
\* the comparison view show the score in the class of the same band: low from
\* 80, medium from 50 to 79, high below 50.
C18_SameBands ==
  /\ view # "none" =>
       BandOfClass(colour) = (IF score \in 80..100 THEN "low"
                              ELSE IF score \in 50..79 THEN "medium" ELSE "high")
  /\ AnalysisResult_getScoreColor(score) = AnalysisHistory_getScoreColor(score)
  /\ AnalysisHistory_getScoreColor(score) = ComparisonView_getScoreColor(score)

\* the comparison view has rendered the score 80, the lowest of the low band
C18_Witness == view = "ComparisonView" /\ score = 80 /\ colour = "text-green-600"

(* ============== extractTextFromFile on every kind of file ============== *)

\* bound: number of parenthesised groups in the text of a file
MaxGroups == 2

\* the accepted types
validTypes ==
  {"application/pdf",
   "application/vnd.openxmlformats-officedocument.wordprocessingml.document",
   "text/plain"}

\* lengths of the contents of the parenthesised groups: each has a character
GroupLists == UNION {[1..n -> {1, 60}] : n \in 0..MaxGroups}

\* the files the extractor is called with
XFiles == [type : validTypes, raw : {0, 49, 50}, cleaned : {0, 49, 99, 100}, groups : GroupLists]

\* extractTextFromFile(file) resolves
callExtract ==
  /\ xtext = -1
  /\ xtext' = extractTextFromFile(xfile)
  /\ UNCHANGED <<xfile, batchVars, endpointVars, singleVars, viewVars, otherVars, authUser>>

\* the extractor is about to be called with a file of an accepted type
InitExtract ==
  /\ BatchOff
  /\ SingleOff
  /\ EndpointOff
  /\ ViewOff
  /\ OtherOff
  /\ authUser = 1
  /\ xfile \in XFiles
  /\ xtext = -1

NextExtract == callExtract

SpecExtract == InitExtract /\ [][NextExtract]_vars

\* C20: for every file of an accepted type the extractor returns a non-empty
\* string.
C20_NeverEmpty == xtext # -1 => xtext > 0

(* ============ the ResumeUpload component and the session =============== *)

\* the users that sign in on this browser
Users == {1}

\* handleSignOut of the dashboard
signOut ==
  /\ authUser # 0
  /\ authUser' = 0
  /\ UNCHANGED <<batchVars, endpointVars, singleVars, viewVars, extractVars, otherVars>>

\* a user signs in on the Auth page
signIn ==
  /\ authUser = 0
  /\ \E u \in Users : authUser' = u
  /\ UNCHANGED <<batchVars, endpointVars, singleVars, viewVars, extractVars, otherVars>>

\* the variables of the batch component that ResumeUpload leaves alone
batchOnlyVars == <<fileStatuses, isProcessing, remainingAnalyses, dropFileStatuses,
                   snapshot, pc, i, resumeText, analysisData, toast, sessionUser>>

untouchedBySingle ==
  <<batchOnlyVars, endpointVars, viewVars, extractVars, otherVars, authUser>>

\* a file is dropped or picked
validateAndSetFile ==
  /\ ~disabled
  /\ \E f \in Files :
       IF TypeOf(f) \in validTypes THEN selectedFile' = f ELSE UNCHANGED selectedFile
  /\ UNCHANGED <<sToast, isAnalyzing, spc, sv, resumes, analysis_results, usage_logs, nextId, log,
                 untouchedBySingle>>

\* the click on the X of the selected file
clearSelected ==
  /\ selectedFile # "none"
  /\ ~isAnalyzing
  /\ selectedFile' = "none"
  /\ UNCHANGED <<isAnalyzing, spc, sv, sToast, resumes, analysis_results, usage_logs, nextId,
                 log, untouchedBySingle>>

\* catch and finally of handleAnalyze
SingleFailed(lg) ==
  /\ sToast' = "Analysis failed"
  /\ isAnalyzing' = FALSE
  /\ spc' = "idle"
  /\ sv' = NoLocals
  /\ log' = lg
  /\ UNCHANGED selectedFile

\* the click on Analyze Resume, up to the first await
handleAnalyze ==
  /\ selectedFile # "none"
  /\ ~isAnalyzing
  /\ ~disabled
  /\ nextId <= MaxAdds
  /\ isAnalyzing' = TRUE
  /\ sv' = [NoLocals EXCEPT !.eid = nextId, !.file = selectedFile]
  /\ nextId' = nextId + 1
  /\ spc' = "getSession"
  /\ UNCHANGED <<selectedFile, sToast, resumes, analysis_results, usage_logs, log,
                 untouchedBySingle>>

\* supabase.auth.getSession() resolved
SingleGetSession ==
  /\ spc = "getSession"
  /\ \E session \in {b \in BOOLEAN : b => authUser # 0} :
       IF session
         THEN /\ sv' = [sv EXCEPT !.session = authUser]
              /\ spc' = "extract"
              /\ UNCHANGED <<selectedFile, isAnalyzing, sToast, log>>
         ELSE SingleFailed(log)
  /\ UNCHANGED <<resumes, analysis_results, usage_logs, nextId, untouchedBySingle>>

\* extractTextFromFile resolved, then the minimum-length check
SingleExtract ==
  /\ spc = "extract"
  /\ \E n \in TextLens :
       LET len == extractTextFromFile(FileOf(sv.file, n))
       IN IF TooShort(len)
            THEN /\ sToast' = "Unable to read resume"
                 /\ isAnalyzing' = FALSE
                 /\ spc' = "idle"
                 /\ sv' = NoLocals
                 /\ log' = Append(log, Ev("extract", sv.eid, "short"))
                 /\ UNCHANGED selectedFile
            ELSE /\ sv' = [sv EXCEPT !.resumeText = len]
                 /\ spc' = "insertResume"
                 /\ log' = Append(log, Ev("extract", sv.eid, "ok"))
                 /\ UNCHANGED <<selectedFile, isAnalyzing, sToast>>
  /\ UNCHANGED <<resumes, analysis_results, usage_logs, nextId, untouchedBySingle>>

\* the insert into resumes resolved
SingleInsertResume ==
  /\ spc = "insertResume"
  /\ \E ok \in {b \in BOOLEAN : b => rls(sv.session)} :
       IF ok
         THEN /\ resumes' = resumes \cup {[id |-> sv.eid, user_id |-> sv.session]}
              /\ spc' = "invoke"
              /\ log' = Append(log, Ev("insertResume", sv.eid, "ok"))
              /\ UNCHANGED <<selectedFile, isAnalyzing, sToast, sv>>
         ELSE /\ SingleFailed(Append(log, Ev("insertResume", sv.eid, "fail")))
              /\ UNCHANGED resumes
  /\ UNCHANGED <<analysis_results, usage_logs, nextId, untouchedBySingle>>

\* functions.invoke("analyze-resume") resolved
SingleInvoke ==
  /\ spc = "invoke"
  /\ \/ \E r \in Risks, sc \in Scores :
          /\ authUser # 0
          /\ sv' = [sv EXCEPT !.analysisData =
                                [id |-> 0, risk_level |-> r, credibility_score |-> sc]]
          /\ spc' = "insertResult"
          /\ log' = Append(log, Ev("invoke", sv.eid, "ok"))
          /\ UNCHANGED <<selectedFile, isAnalyzing, sToast>>
     \/ \* analysisError or analysisData.error
        SingleFailed(Append(log, Ev("invoke", sv.eid, "fail")))
  /\ UNCHANGED <<resumes, analysis_results, usage_logs, nextId, untouchedBySingle>>

\* the insert into analysis_results resolved
SingleInsertResult ==
  /\ spc = "insertResult"
  /\ \E ok \in {b \in BOOLEAN : b => rls(sv.session)} :
       IF ok
         THEN /\ analysis_results' = analysis_results \cup
                   {[id |-> sv.eid, resume_id |-> sv.eid, user_id |-> sv.session,
                     risk_level |-> sv.analysisData.risk_level,
                     credibility_score |-> sv.analysisData.credibility_score]}
              /\ spc' = "logUsage"
              /\ log' = Append(log, Ev("insertResult", sv.eid, "ok"))
              /\ UNCHANGED <<selectedFile, isAnalyzing, sToast, sv>>
         ELSE /\ SingleFailed(Append(log, Ev("insertResult", sv.eid, "fail")))
              /\ UNCHANGED analysis_results
  /\ UNCHANGED <<resumes, usage_logs, nextId, untouchedBySingle>>

\* the insert into usage_logs resolved; its error is not looked at; the
\* result is handed to the dashboard and the selection is cleared
SingleLogUsage ==
  /\ spc = "logUsage"
  /\ \E ok \in {b \in BOOLEAN : b => rls(sv.session)} :
       /\ usage_logs' = IF ok THEN usage_logs \cup {sv.eid} ELSE usage_logs
       /\ log' = Append(Append(log, Ev("logUsage", sv.eid, IF ok THEN "ok" ELSE "fail")),
                        Ev("callback", sv.eid, "ok"))
  /\ sToast' = "Analysis complete!"
  /\ selectedFile' = "none"
  /\ isAnalyzing' = FALSE
  /\ spc' = "idle"
  /\ sv' = NoLocals
  /\ UNCHANGED <<resumes, analysis_results, nextId, untouchedBySingle>>

\* the dashboard as mounted for a signed-in user, with both upload components
InitPersist ==
  /\ BatchOff
  /\ SingleOff
  /\ EndpointOff
  /\ ViewOff
  /\ ExtractOff
  /\ OtherOff
  /\ authUser \in Users

\* the dashboard shows one tab at a time: an action of the user on the bulk
\* tab finds ResumeUpload as mounted
OnBulkTab(A) == selectedFile = "none" /\ ~isAnalyzing /\ A

\* an action of the user on the upload tab finds BulkResumeUpload as mounted
OnUploadTab(A) == fileStatuses = << >> /\ ~isProcessing /\ A

NextPersist ==
  \/ OnBulkTab(handleFileSelect)
  \/ OnBulkTab(clearAll)
  \/ OnBulkTab(handleAnalyzeAll)
  \/ GetSession
  \/ FetchProfile
  \/ Extract
  \/ InsertResume
  \/ Invoke
  \/ InsertResult
  \/ LogUsage
  \/ Notify
  \/ Delay
  \/ OnUploadTab(validateAndSetFile)
  \/ OnUploadTab(clearSelected)
  \/ OnUploadTab(handleAnalyze)
  \/ SingleGetSession
  \/ SingleExtract
  \/ SingleInsertResume
  \/ SingleInvoke
  \/ SingleInsertResult
  \/ SingleLogUsage
  \/ signOut
  \/ signIn

SpecPersist == InitPersist /\ [][NextPersist]_vars

(* --------------------- properties of the stored rows ------------------- *)

\* the rows of resumes a result row points to
ResumesOf(r) == {row \in resumes : row.id = r.resume_id}

\* the rows hold what C16 says of them
LinkedRows ==
  \A r \in analysis_results :
    /\ Cardinality(ResumesOf(r)) = 1
    /\ \A row \in ResumesOf(r) :
         /\ row.id = r.id
         /\ row.user_id = r.user_id
    /\ r.user_id \in Users
    /\ \E a, b \in 1..Len(log) :
         /\ a < b
         /\ log[a] = Ev("insertResume", r.id, "ok")
         /\ log[b] = Ev("insertResult", r.id, "ok")

\* a row is written with the id of the user who is signed in at that moment
WrittenAsSelf ==
  /\ \A r \in analysis_results' \ analysis_results : r.user_id = authUser
  /\ \A row \in resumes' \ resumes : row.user_id = authUser

RiskBand(sc) == IF sc >= 80 THEN "low" ELSE IF sc >= 50 THEN "medium" ELSE "high"

\* C17: the risk category of every stored analysis result is the band of its
\* score: low from 80, medium from 50 to 79, high below 50.
C17_RiskIsBandOfScore ==
  \A r \in analysis_results : r.risk_level = RiskBand(r.credibility_score)

\* the extraction of submission e gave a text below the minimum length
ShortExtract(e) == Logged(log, "extract", e, "short")

\* C19: for a file whose extracted text is shorter than 50 characters no resume
\* is stored and no analysis is requested, in the single upload and in a batch,
\* where the file ends in error; a submission that got past the extraction
\* holds a text of 50 characters or more.
C19_ShortTextStopsSubmission ==
  /\ \A e \in 1..MaxAdds + 1 :
       ShortExtract(e) =>
         /\ e \notin ResumeIds
         /\ ~LoggedOp(log, "insertResume", e)
         /\ ~LoggedOp(log, "invoke", e)
         /\ \A m \in Positions(fileStatuses) :
              fileStatuses[m].eid = e => fileStatuses[m].status = "error"
  /\ pc \in {"insertResume", "invoke", "insertResult", "logUsage", "notify"} => resumeText >= 50
  /\ spc \in {"insertResume", "invoke", "insertResult", "logUsage"} => sv.resumeText >= 50

\* a single upload was stopped for its short text, and so was a file of a
\* batch that followed
C19_Witness ==
  /\ sToast = "Unable to read resume"
  /\ \E m \in Positions(fileStatuses) :
       /\ fileStatuses[m].status = "error"
       /\ fileStatuses[m].error = TooShortMsg
       /\ ShortExtract(fileStatuses[m].eid)
  /\ \E e \in 1..MaxAdds :
       /\ ShortExtract(e)
       /\ \A m \in Positions(fileStatuses) : fileStatuses[m].eid # e

(* ============================ the CSV export =========================== *)

\* bound: number of characters of a field value
MaxStrLen == 3

COMMA == ","

DQ == "\""

LF == "\n"

CR == "\r"

\* the characters a field value is made of: a letter and the four characters
\* a CSV reader gives a meaning to
Chars == {"a", COMMA, DQ, LF, CR}

RECURSIVE StringsUpTo(_)
StringsUpTo(n) ==
  IF n = 0 THEN {<< >>}
  ELSE LET shorter == StringsUpTo(n - 1)
       IN shorter \cup {Append(q, c) : q \in {r \in shorter : Len(r) = n - 1}, c \in Chars}

Includes(str, c) == \E k \in 1..Len(str) : str[k] = c

\* str.replace(/"/g, '""')
RECURSIVE DoubleQuotes(_)
DoubleQuotes(str) ==
  IF str = << >> THEN << >>
  ELSE (IF Head(str) = DQ THEN <<DQ, DQ>> ELSE <<Head(str)>>) \o DoubleQuotes(Tail(str))

\* escapeCSV of a string
escapeCSV(str) ==
  IF Includes(str, COMMA) \/ Includes(str, LF) \/ Includes(str, DQ)
    THEN <<DQ>> \o DoubleQuotes(str) \o <<DQ>>
    ELSE str

\* a CSV reader: the rows of fields of the text s from position k on, where
\* inq tells that a quoted field is open, field and row are the field and the
\* row read so far, and rows the rows already closed. Outside quotes a comma
\* closes the field and a line break (LF, CR or CR LF) closes the row; inside
\* quotes two quotes stand for one and one quote closes the quoted part.
RECURSIVE csvRead(_, _, _, _, _, _)
csvRead(s, k, inq, field, row, rows) ==
  IF k > Len(s) THEN Append(rows, Append(row, field))
  ELSE IF inq
    THEN IF s[k] = DQ
           THEN IF k < Len(s) /\ s[k + 1] = DQ
                  THEN csvRead(s, k + 2, TRUE, Append(field, DQ), row, rows)
                  ELSE csvRead(s, k + 1, FALSE, field, row, rows)
           ELSE csvRead(s, k + 1, TRUE, Append(field, s[k]), row, rows)
  ELSE IF s[k] = DQ /\ field = << >>
    THEN csvRead(s, k + 1, TRUE, field, row, rows)
  ELSE IF s[k] = COMMA
    THEN csvRead(s, k + 1, FALSE, << >>, Append(row, field), rows)
  ELSE IF s[k] = LF
    THEN csvRead(s, k + 1, FALSE, << >>, << >>, Append(rows, Append(row, field)))
  ELSE IF s[k] = CR
    THEN csvRead(s, IF k < Len(s) /\ s[k + 1] = LF THEN k + 2 ELSE k + 1, FALSE,
                 << >>, << >>, Append(rows, Append(row, field)))
  ELSE csvRead(s, k + 1, FALSE, Append(field, s[k]), row, rows)

csvRows(s) == csvRead(s, 1, FALSE, << >>, << >>, << >>)

\* what the export leaves alone
csvFrame ==
  UNCHANGED <<csvIn, batchVars, endpointVars, singleVars, viewVars, extractVars, authUser,
              historyVars, accountVars>>

\* escapeCSV(value) is computed for a string
escapeValue ==
  /\ csvStage = "value"
  /\ csvOut' = escapeCSV(csvIn)
  /\ csvStage' = "escaped"
  /\ UNCHANGED csvParsed
  /\ csvFrame

\* the text written is read back
readBack ==
  /\ csvStage \in {"escaped", "row"}
  /\ csvParsed' = csvRows(csvOut)
  /\ csvStage' = "parsed"
  /\ UNCHANGED csvOut
  /\ csvFrame

UploadsOff ==
  /\ BatchOff
  /\ SingleOff
  /\ EndpointOff
  /\ ViewOff
  /\ ExtractOff
  /\ authUser = 1

\* a string is about to be escaped
InitEscape ==
  /\ UploadsOff
  /\ HistoryOff
  /\ AccountsOff
  /\ csvStage = "value"
  /\ csvIn \in StringsUpTo(MaxStrLen)
  /\ csvOut = << >>
  /\ csvParsed = << >>

NextEscape ==
  \/ escapeValue
  \/ readBack

SpecEscape == InitEscape /\ [][NextEscape]_vars

\* C21: escapeCSV followed by the reading of one CSV field gives the string
\* back; a string with a comma, a double quote or a newline is written between
\* double quotes with each inner quote doubled, any other string is written as
\* it is.
C21_EscapeRoundTrip ==
  /\ csvStage = "parsed" => csvParsed = << <<csvIn>> >>
  /\ csvStage = "escaped" =>
       IF Includes(csvIn, COMMA) \/ Includes(csvIn, DQ) \/ Includes(csvIn, LF)
         THEN /\ Head(csvOut) = DQ
              /\ csvOut[Len(csvOut)] = DQ
              /\ Len(csvOut) = Len(csvIn) + 2 + Cardinality({k \in 1..Len(csvIn) : csvIn[k] = DQ})
         ELSE csvOut = csvIn

\* the header of the export
headers ==
  <<"File Name", "Credibility Score", "Risk Level", "Summary", "Flag Count", "Flags",
    "Experience Consistency", "Skills Alignment", "Achievements Credibility",
    "Overall Authenticity", "Analysis Date">>

\* texts of the fields of an analysis that are tried
FieldTexts == {<<"a">>, <<"a", COMMA, DQ>>, <<LF>>}

\* texts of a sub-assessment that are tried
DetailTexts == {<<"a">>, <<COMMA>>}

\* new Date(created_at).toLocaleString() in the locale of the browser: en-US
\* writes 12/23/2025, 4:01:17 PM and sv-SE writes 2025-12-23 16:01:17
LocaleDates ==
  {<<"12/23/2025", COMMA, " 4:01:17 PM">>, <<"2025-12-23 16:01:17">>}

\* the flags of an analysis: none, or one with a description
FlagLists ==
  {<< >>} \cup {<<[category |-> "Analysis", severity |-> "low", description |-> d]>> :
                  d \in FieldTexts}

\* the analyses that are exported
ExportedAnalyses ==
  [file_name : FieldTexts, credibility_score : {"85"}, risk_level : {"low"},
   summary : FieldTexts, flags : FlagLists,
   detailed_analysis : [SubAssessments -> DetailTexts], date : LocaleDates]

\* `[${f.severity}] ${f.category}: ${f.description}` joined by '; '
RECURSIVE flagsText(_)
flagsText(flags) ==
  IF flags = << >> THEN << >>
  ELSE <<"[", flags[1].severity, "] ", flags[1].category, ": ">> \o flags[1].description
       \o (IF Len(flags) > 1 THEN <<"; ">> \o flagsText(Tail(flags)) ELSE << >>)

\* the cells of the row of an analysis, before the join
cells(a) ==
  <<escapeCSV(a.file_name),
    <<a.credibility_score>>,
    <<a.risk_level>>,
    escapeCSV(a.summary),
    <<IF Len(a.flags) = 0 THEN "0" ELSE "1">>,
    escapeCSV(flagsText(a.flags)),
    escapeCSV(a.detailed_analysis["experience_consistency"]),
    escapeCSV(a.detailed_analysis["skills_alignment"]),
    escapeCSV(a.detailed_analysis["achievements_credibility"]),
    escapeCSV(a.detailed_analysis["overall_authenticity"]),
    a.date>>

\* [...].join(',')
RECURSIVE join(_)
join(cs) ==
  IF cs = << >> THEN << >>
  ELSE IF Len(cs) = 1 THEN cs[1]
  ELSE cs[1] \o <<COMMA>> \o join(Tail(cs))

\* the row of exportToCSV for one analysis is written
exportToCSV ==
  /\ csvStage = "analysis"
  /\ csvOut' = join(cells(csvIn))
  /\ csvStage' = "row"
  /\ UNCHANGED csvParsed
  /\ csvFrame

\* an analysis is about to be exported
InitExport ==
  /\ UploadsOff
  /\ HistoryOff
  /\ AccountsOff
  /\ csvStage = "analysis"
  /\ csvIn \in ExportedAnalyses
  /\ csvOut = << >>
  /\ csvParsed = << >>

NextExport ==
  \/ exportToCSV
  \/ readBack

SpecExport == InitExport /\ [][NextExport]_vars

\* C22: every data row of the export reads back as one row of exactly the 11
\* columns of the header.
C22_ElevenColumns ==
  csvStage = "parsed" =>
    /\ Len(csvParsed) = 1
    /\ Len(csvParsed[1]) = Len(headers)
    /\ Len(headers) = 11

\* the rows whose date holds no comma read back as 11 columns
C22_WithoutCommaInDate ==
  (csvStage = "parsed" /\ ~Includes(csvIn.date, COMMA)) =>
    (Len(csvParsed) = 1 /\ Len(csvParsed[1]) = 11)


(* ==================== files without extractable text ==================== *)

\* C23: a file from which no text could be extracted, for which the extractor
\* returns its sentinel sentence, does not get past the minimum-length check:
\* no submission, single or in a batch, goes on to the insert of a resume or
\* to the analysis request with the sentinel as its text.  (In the model only
\* the sentinel has the length SentinelLen.)
C23_SentinelStopped ==
  /\ pc \in {"insertResume", "invoke", "insertResult", "logUsage", "notify"} =>
       resumeText # SentinelLen
  /\ spc \in {"insertResume", "invoke", "insertResult", "logUsage"} =>
       sv.resumeText # SentinelLen


(* ========================= termination of a run ======================== *)

\* an awaited call of the run resolves or rejects, or the timer of the delay
\* fires
Resolve ==
  \/ GetSession
  \/ FetchProfile
  \/ Extract
  \/ InsertResume
  \/ Invoke
  \/ InsertResult
  \/ LogUsage
  \/ Notify
  \/ Delay

\* the batch component when every awaited call eventually settles
SpecLive == Init /\ [][Next]_vars /\ WF_vars(Resolve)

\* the entry of submission e is in the queue with the given status
HasStatus(e, sts) ==
  \E m \in Positions(fileStatuses) :
    fileStatuses[m].eid = e /\ fileStatuses[m].status \in sts

\* C24: provided every awaited call eventually returns or fails, every file
\* that entered analyzing eventually reaches complete or error, and a run that
\* set isProcessing eventually resets it to false, whether it ends after the
\* loop or fails before it for want of a session.
C24_RunTerminates ==
  /\ isProcessing ~> ~isProcessing
  /\ \A e \in 1..MaxAdds + 1 : HasStatus(e, {"analyzing"}) ~> HasStatus(e, Terminal)

\* a run is over that brought one file to complete and one to error
C24_Witness ==
  /\ ~isProcessing
  /\ toast = "Bulk analysis complete"
  /\ \E e1, e2 \in 1..MaxAdds + 1 :
       HasStatus(e1, {"complete"}) /\ HasStatus(e2, {"error"})

\* a run has ended before the loop for want of a session: every file of the
\* batch is still pending
C24_NoSessionEnd ==
  /\ ~isProcessing
  /\ toast = "Analysis failed"
  /\ fileStatuses # << >>


(* ================== where the status of a file is written ============== *)

\* status of the entry of submission e in the queue fs, "absent" when it has none
StatusOf(fs, e) ==
  IF \E m \in Positions(fs) : fs[m].eid = e
    THEN LET m == CHOOSE m \in Positions(fs) : fs[m].eid = e IN fs[m].status
    ELSE "absent"

\* result.id of the entry of submission e in the queue fs
ResultOf(fs, e) ==
  LET m == CHOOSE m \in Positions(fs) : fs[m].eid = e IN fs[m].result.id

\* every change of the status of an entry that stays in the queue is made by
\* the run, on the entry of the file the loop is at: analyzing when the loop
\* takes the file, complete or error when its analysis is over
LandsOnAnalysedFile ==
  \A e \in 1..MaxAdds + 1 :
    /\ StatusOf(fileStatuses, e) # "absent"
    /\ StatusOf(fileStatuses', e) # "absent"
    /\ StatusOf(fileStatuses', e) # StatusOf(fileStatuses, e)
    => /\ isProcessing
       /\ \/ /\ StatusOf(fileStatuses', e) = "analyzing"
             /\ e = snapshot[i'].eid
          \/ /\ StatusOf(fileStatuses, e) = "analyzing"
             /\ StatusOf(fileStatuses', e) \in Terminal
             /\ e = snapshot[i].eid
             /\ StatusOf(fileStatuses', e) = "complete" => ResultOf(fileStatuses', e) = e

\* during a run no entry leaves the queue or changes its index and no second
\* run captures the queue
QueueKeptDuringRun ==
  isProcessing =>
    /\ snapshot' = snapshot
    /\ Len(fileStatuses') >= Len(fileStatuses)
    /\ \A m \in Positions(fileStatuses) : fileStatuses'[m].eid = fileStatuses[m].eid

\* C25: during a run the status written after each analysis lands on the
\* queue entry of the file that was analysed, whatever the user does meanwhile
\* (files dropped during the run are appended); removal, clear-all and a
\* second Analyze-all do not happen during a run.
C25_StatusOnAnalysedFile == [][LandsOnAnalysedFile /\ QueueKeptDuringRun]_vars

\* a run is in progress, a drop has lengthened the queue since the click, and
\* the entry marked analyzing is the one of the file the loop is at; the entry
\* that was dropped is behind it
C25_Witness ==
  /\ isProcessing
  /\ pc \in PipelineOps
  /\ Len(fileStatuses) > Len(snapshot)
  /\ fileStatuses[i].status = "analyzing"
  /\ fileStatuses[i].eid = snapshot[i].eid
  /\ \A m \in Positions(fileStatuses) : m # i => fileStatuses[m].status # "analyzing"


(* ======================= duplicates in the queue ======================= *)

\* C26: after any sequence of additions, through the picker or by drop, and
\* of removals, the queue never holds two entries for the same file (same
\* name and size).
C26_NoDuplicates ==
  \A m, n \in Positions(fileStatuses) :
    m # n => fileStatuses[m].file # fileStatuses[n].file


(* ===================== the completion callback ========================= *)

\* positions of the log at which onAnalysisComplete was invoked for submission e
CallbacksOf(e) == {n \in 1..Len(log) : log[n] = Ev("callback", e, "ok")}

\* position in the queue of the entry of submission e
IndexOf(e) == CHOOSE m \in Positions(fileStatuses) : fileStatuses[m].eid = e

\* C27: onAnalysisComplete is invoked exactly once for each file that reaches
\* complete, with the result that was persisted for that file, and in queue
\* order; it is never invoked for a file that is in error or pending.
C27_CallbackOncePerComplete ==
  /\ \A e \in 1..MaxAdds + 1 :
       /\ Cardinality(CallbacksOf(e)) <= 1
       /\ HasStatus(e, {"complete"}) => Cardinality(CallbacksOf(e)) = 1
       /\ HasStatus(e, {"pending", "analyzing", "error"}) => CallbacksOf(e) = {}
       /\ CallbacksOf(e) # {} =>
            /\ \E r \in analysis_results : r.id = e /\ r.resume_id = e
            /\ StatusOf(fileStatuses, e) # "absent" =>
                 \E r \in analysis_results :
                   /\ r.id = fileStatuses[IndexOf(e)].result.id
                   /\ r.resume_id = e
                   /\ r.risk_level = fileStatuses[IndexOf(e)].result.risk_level
                   /\ r.credibility_score = fileStatuses[IndexOf(e)].result.credibility_score
  /\ \A d, e \in 1..MaxAdds + 1 :
       /\ HasStatus(d, {"complete"})
       /\ HasStatus(e, {"complete"})
       /\ IndexOf(d) < IndexOf(e)
       => \A a \in CallbacksOf(d), b \in CallbacksOf(e) : a < b

\* two files of one queue are complete and the callback was invoked for each,
\* for the first one first
C27_Witness ==
  /\ Len(fileStatuses) = 2
  /\ fileStatuses[1].status = "complete"
  /\ fileStatuses[2].status = "complete"
  /\ \E a \in CallbacksOf(fileStatuses[1].eid), b \in CallbacksOf(fileStatuses[2].eid) : a < b

\* a file ended in error and the callback was not invoked for it, while it was
\* for the file before it
C27_ErrorWithoutCallback ==
  /\ Len(fileStatuses) = 2
  /\ fileStatuses[1].status = "complete"
  /\ fileStatuses[2].status = "error"
  /\ CallbacksOf(fileStatuses[1].eid) # {}
  /\ CallbacksOf(fileStatuses[2].eid) = {}


(* ========================== the history view =========================== *)

\* bound: number of times the Compare button is used
MaxCompares == 2

\* the analyses fetchAnalyses loaded, newest first: words stands for the words
\* of the file name and of the summary, age for the days since created_at
Analyses ==
  {[id |-> 1, risk_level |-> "high", words |-> {"cv"}, age |-> 0],
   [id |-> 2, risk_level |-> "low", words |-> {"cv", "sales"}, age |-> 10],
   [id |-> 3, risk_level |-> "low", words |-> {"sales"}, age |-> 40]}

RiskFilters == {"all", "high", "medium", "low"}
DateFilters == {"all", "today", "week", "month"}
SearchQueries == {"", "cv"}

\* days back to the cutoff date of a date filter
CutoffDays(filter) ==
  CASE filter = "today" -> 0
    [] filter = "week" -> 7
    [] filter = "month" -> 30

\* filterAnalyses: the rows that are shown
filteredAnalyses ==
  {a \in Analyses :
     /\ riskFilter # "all" => a.risk_level = riskFilter
     /\ searchQuery # "" => searchQuery \in a.words
     /\ dateFilter # "all" => a.age <= CutoffDays(dateFilter)}

\* variant: a third analysis can still be ticked
SelectionFull_Above2(selected) == Cardinality(selected) > 2

\* if (newSelected.size >= 2)
SelectionFull(selected) == Cardinality(selected) >= 2

\* what the history view leaves alone
historyFrame ==
  UNCHANGED <<batchVars, endpointVars, singleVars, viewVars, extractVars, authUser,
              csvVars, accountVars>>

\* the checkbox of a row that is shown
toggleCompareSelection ==
  /\ hToast # "off"
  /\ \E analysis \in filteredAnalyses :
       IF analysis.id \in selectedForCompare
         THEN /\ selectedForCompare' = selectedForCompare \ {analysis.id}
              /\ UNCHANGED hToast
         ELSE IF SelectionFull(selectedForCompare)
           THEN /\ hToast' = "Maximum selection reached"
                /\ UNCHANGED selectedForCompare
           ELSE /\ selectedForCompare' = selectedForCompare \cup {analysis.id}
                /\ UNCHANGED hToast
  /\ UNCHANGED <<riskFilter, dateFilter, searchQuery, compared>>
  /\ historyFrame

\* the Compare button, rendered while something is ticked and enabled while
\* two analyses are
handleCompare ==
  /\ hToast # "off"
  /\ selectedForCompare # {}
  /\ Cardinality(selectedForCompare) = 2
  /\ Len(compared) < MaxCompares
  /\ IF Cardinality(selectedForCompare) # 2
       THEN /\ hToast' = "Select 2 resumes"
            /\ UNCHANGED <<selectedForCompare, compared>>
       ELSE LET found == {a \in Analyses : a.id \in selectedForCompare}
            IN IF Cardinality(found) = 2
                 THEN /\ compared' = Append(compared, {a.id : a \in found})
                      /\ selectedForCompare' = {}
                      /\ UNCHANGED hToast
                 ELSE UNCHANGED <<selectedForCompare, compared, hToast>>
  /\ UNCHANGED <<riskFilter, dateFilter, searchQuery>>
  /\ historyFrame

\* onValueChange of the risk select
setRiskFilter ==
  /\ hToast # "off"
  /\ \E f \in RiskFilters \ {riskFilter} : riskFilter' = f
  /\ UNCHANGED <<selectedForCompare, dateFilter, searchQuery, compared, hToast>>
  /\ historyFrame

\* onValueChange of the date select
setDateFilter ==
  /\ hToast # "off"
  /\ \E f \in DateFilters \ {dateFilter} : dateFilter' = f
  /\ UNCHANGED <<selectedForCompare, riskFilter, searchQuery, compared, hToast>>
  /\ historyFrame

\* onChange of the search box
setSearchQuery ==
  /\ hToast # "off"
  /\ \E q \in SearchQueries \ {searchQuery} : searchQuery' = q
  /\ UNCHANGED <<selectedForCompare, riskFilter, dateFilter, compared, hToast>>
  /\ historyFrame

\* the history view after fetchAnalyses
InitHistory ==
  /\ UploadsOff
  /\ CsvOff
  /\ AccountsOff
  /\ selectedForCompare = {}
  /\ riskFilter = "all"
  /\ dateFilter = "all"
  /\ searchQuery = ""
  /\ compared = << >>
  /\ hToast = "none"

NextHistory ==
  \/ toggleCompareSelection
  \/ handleCompare
  \/ setRiskFilter
  \/ setDateFilter
  \/ setSearchQuery

SpecHistory == InitHistory /\ [][NextHistory]_vars

\* C28: after any sequence of checkbox toggles, filter changes and compare
\* actions the comparison selection holds at most 2 analyses; onCompare is
\* called only with exactly 2 distinct analyses that were selected, and the
\* selection is empty after the call.
C28_CompareSelection ==
  [][/\ Cardinality(selectedForCompare') <= 2
     /\ compared' # compared =>
          /\ Cardinality(selectedForCompare) = 2
          /\ compared' = Append(compared, selectedForCompare)
          /\ selectedForCompare' = {}]_vars

\* onCompare was called with two analyses of which one was hidden by the
\* filters at the time, and the selection is empty
C28_Witness ==
  /\ compared # << >>
  /\ selectedForCompare = {}
  /\ Cardinality(compared[Len(compared)]) = 2
  /\ \E a \in Analyses : a.id \in compared[Len(compared)] /\ a \notin filteredAnalyses
  /\ hToast = "Maximum selection reached"


(* ============ workspace invitations and account deletion =============== *)

\* the registered users; user u has the e-mail address u
Accounts == {1, 2}

\* an e-mail address nobody has registered with
NewEmail == 3

\* the addresses invitations are sent to
InviteEmails == {2, NewEmail}

\* the workspaces; workspace w was created by user w
Workspaces == {1, 2}

\* Authorization header of a request: none, a token that resolves to nobody,
\* or the token of a user
NoHeader == 0
BadToken == -1
BearerTokens == {NoHeader, BadToken} \cup Accounts

\* supabase.auth.getUser(token): the user of the token, 0 for none
ResolveUser(d, tk) == IF tk \in d.users THEN tk ELSE 0

\* public.is_workspace_admin(_workspace_id, _user_id)
is_workspace_admin(d, ws, u) ==
  \/ \E m \in d.workspace_members : m.workspace_id = ws /\ m.user_id = u /\ m.role = "admin"
  \/ \E w \in d.team_workspaces : w.id = ws /\ w.owner_id = u

\* the response of a function, with the user its request was made by
Answer(fn, u, st, b) == [fn |-> fn, user |-> u, status |-> st, body |-> b]

\* what the functions leave alone
accountFrame ==
  UNCHANGED <<batchVars, endpointVars, singleVars, viewVars, extractVars, authUser,
              csvVars, historyVars>>

\* one request to send-workspace-invitation, served with the service-role key;
\* the e-mail service answers the fetch that follows the insert
sendWorkspaceInvitation ==
  /\ \E tk \in BearerTokens, email \in InviteEmails, ws \in Workspaces :
       LET user == ResolveUser(db, tk)
           fn == "send-workspace-invitation"
           existingProfile == {pr \in db.profiles : pr.email = email}
           known == ws \in {w.id : w \in db.team_workspaces}
       IN IF tk = NoHeader
            THEN /\ fnRes' = Answer(fn, 0, 500, "No authorization header")
                 /\ UNCHANGED db
            ELSE IF user = 0
              THEN /\ fnRes' = Answer(fn, 0, 500, "Unauthorized")
                   /\ UNCHANGED db
            ELSE IF ~known
              THEN \* the insert violates the foreign key on workspace_id
                   /\ fnRes' = Answer(fn, user, 500, "foreign key violation")
                   /\ UNCHANGED db
            ELSE IF existingProfile # {}
              THEN LET uid == (CHOOSE pr \in existingProfile : TRUE).user_id
                       member == \E m \in db.workspace_members :
                                   m.workspace_id = ws /\ m.user_id = uid
                   IN /\ db' = IF member  \* error 23505 is passed over
                                 THEN db
                                 ELSE [db EXCEPT !.workspace_members =
                                         @ \cup {[workspace_id |-> ws, user_id |-> uid,
                                                  role |-> "member"]}]
                      /\ fnRes' = Answer(fn, user, 200, "existing_user")
              ELSE IF \E inv \in db.pending_invitations :
                        inv.workspace_id = ws /\ inv.email = email
                THEN /\ fnRes' = Answer(fn, user, 500,
                                        "This email has already been invited to this workspace")
                     /\ UNCHANGED db
                ELSE /\ db' = [db EXCEPT !.pending_invitations =
                                 @ \cup {[workspace_id |-> ws, email |-> email,
                                          role |-> "member", invited_by |-> user]}]
                     /\ fnRes' = Answer(fn, user, 200, "new_user")
  /\ accountFrame

\* variant: the deletes carry no filter on the user
MatchesUser_Any(id, userId) == TRUE

\* .eq("user_id", userId), .eq("owner_id", userId)
MatchesUser(id, userId) == id = userId

\* rows of analysis_results are deleted: shared_analyses.analysis_id cascades
DeleteAnalyses(d, gone) ==
  [d EXCEPT !.analysis_results = @ \ gone,
            !.shared_analyses = {sh \in @ : sh.analysis_id \notin {r.id : r \in gone}}]

\* rows of resumes are deleted: analysis_results.resume_id cascades
DeleteResumes(d, gone) ==
  DeleteAnalyses([d EXCEPT !.resumes = @ \ gone],
                 {r \in d.analysis_results : r.resume_id \in {x.id : x \in gone}})

\* rows of team_workspaces are deleted: workspace_id cascades in three tables
DeleteWorkspaces(d, gone) ==
  LET ids == {w.id : w \in gone}
  IN [d EXCEPT !.team_workspaces = @ \ gone,
               !.workspace_members = {m \in @ : m.workspace_id \notin ids},
               !.pending_invitations = {inv \in @ : inv.workspace_id \notin ids},
               !.shared_analyses = {sh \in @ : sh.workspace_id \notin ids}]

\* the tables delete-account deletes from, in its order
DeleteSteps ==
  <<"analysis_results", "resumes", "usage_logs", "workspace_members", "team_workspaces",
    "user_roles", "profiles">>

\* one delete of delete-account
DeleteIn(d, table, userId) ==
  CASE table = "analysis_results" ->
         DeleteAnalyses(d, {r \in d.analysis_results : MatchesUser(r.user_id, userId)})
    [] table = "resumes" ->
         DeleteResumes(d, {r \in d.resumes : MatchesUser(r.user_id, userId)})
    [] table = "team_workspaces" ->
         DeleteWorkspaces(d, {w \in d.team_workspaces : MatchesUser(w.owner_id, userId)})
    [] OTHER -> [d EXCEPT ![table] = {r \in @ : ~MatchesUser(r.user_id, userId)}]

\* the deletes from step k on; the one on the table failed returns an error,
\* which is logged and passed over
RECURSIVE DeleteFrom(_, _, _, _)
DeleteFrom(d, k, userId, failed) ==
  IF k > Len(DeleteSteps) THEN d
  ELSE DeleteFrom(IF DeleteSteps[k] = failed THEN d ELSE DeleteIn(d, DeleteSteps[k], userId),
                  k + 1, userId, failed)

\* auth.admin.deleteUser(userId): user_id cascades in five tables
DeleteUser(d, userId) ==
  LET d1 == DeleteResumes(d, {r \in d.resumes : r.user_id = userId})
      d2 == DeleteAnalyses(d1, {r \in d1.analysis_results : r.user_id = userId})
  IN [d2 EXCEPT !.users = @ \ {userId},
                !.user_roles = {r \in @ : r.user_id # userId},
                !.profiles = {r \in @ : r.user_id # userId},
                !.usage_logs = {r \in @ : r.user_id # userId}]

\* the deletes whose failure is looked at
DeleteFailures == {"none", "team_workspaces"}

\* the error every failure of delete-account is answered with
GenericDeleteError == "Unable to delete account. Please try again."

\* one request to delete-account
deleteAccount ==
  /\ \E tk \in BearerTokens, failed \in DeleteFailures, deleted \in BOOLEAN :
       LET userId == ResolveUser(db, tk)
           fn == "delete-account"
       IN IF tk = NoHeader \/ userId = 0
            THEN /\ fnRes' = Answer(fn, 0, 500, GenericDeleteError)
                 /\ UNCHANGED db
            ELSE LET cleaned == DeleteFrom(db, 1, userId, failed)
                 IN IF deleted
                      THEN /\ db' = DeleteUser(cleaned, userId)
                           /\ fnRes' = Answer(fn, userId, 200, "success")
                      ELSE /\ db' = cleaned
                           /\ fnRes' = Answer(fn, userId, 500, GenericDeleteError)
  /\ accountFrame

\* the rows every database of the start holds
BaseDb ==
  [EmptyDb EXCEPT
     !.users = Accounts,
     !.profiles = {[user_id |-> u, email |-> u] : u \in Accounts},
     !.user_roles = {[user_id |-> u] : u \in Accounts},
     !.resumes = {[id |-> u, user_id |-> u] : u \in Accounts},
     !.analysis_results = {[id |-> u, resume_id |-> u, user_id |-> u] : u \in Accounts},
     !.usage_logs = {[user_id |-> u] : u \in Accounts},
     !.team_workspaces = {[id |-> w, owner_id |-> w] : w \in Workspaces}]

\* user 2 is no member of workspace 1, a member, or an admin of it; their
\* analysis is shared with workspace 1 or not
InitAccounts ==
  /\ UploadsOff
  /\ CsvOff
  /\ HistoryOff
  /\ fnRes = NoFnRes
  /\ \E members \in {{}} \cup {{[workspace_id |-> 1, user_id |-> 2, role |-> r]} :
                                r \in {"member", "admin"}},
        shared \in {{}, {[analysis_id |-> 2, workspace_id |-> 1, shared_by |-> 2]}} :
       db = [BaseDb EXCEPT !.workspace_members = members, !.shared_analyses = shared]

NextAccounts ==
  \/ sendWorkspaceInvitation
  \/ deleteAccount

SpecAccounts == InitAccounts /\ [][NextAccounts]_vars

\* C29: a row of workspace_members or of pending_invitations is created only
\* by a request whose authenticated caller is the owner or an admin of the
\* workspace of the row; a request of anybody else leaves both tables as they
\* were.
C29_OnlyAdminsInvite ==
  [][/\ \A m \in db'.workspace_members \ db.workspace_members :
          is_workspace_admin(db, m.workspace_id, fnRes'.user)
     /\ \A inv \in db'.pending_invitations \ db.pending_invitations :
          is_workspace_admin(db, inv.workspace_id, fnRes'.user)]_vars

\* the rows of table t that a step removed
Removed(t) == db[t] \ db'[t]

\* the tables whose rows carry a user_id
UserTables == {"profiles", "user_roles", "resumes", "analysis_results", "usage_logs",
               "workspace_members"}

\* a step removed only rows of the user u: rows with u as user_id, workspaces
\* with u as owner_id, and nothing from the tables that hang on a workspace or
\* an analysis unless u put it there
RemovedOnlyRowsOf(u) ==
  /\ \A t \in UserTables : \A r \in Removed(t) : r.user_id = u
  /\ \A w \in Removed("team_workspaces") : w.owner_id = u
  /\ \A inv \in Removed("pending_invitations") : inv.invited_by = u
  /\ \A sh \in Removed("shared_analyses") : sh.shared_by = u
  /\ Removed("users") \subseteq {u}

\* a request without a header or with a token that resolves to nobody deletes
\* nothing and gets the generic error
RefusedDeletesNothing ==
  fnRes'.fn = "delete-account" /\ fnRes'.user = 0 =>
    /\ db' = db
    /\ fnRes'.status = 500
    /\ fnRes'.body = GenericDeleteError

\* C30 as stated: delete-account deletes only rows whose user id or owner id
\* is the id of the user of the token, the rows of every other user stay, and
\* without a header or with an invalid token nothing is deleted and the
\* generic error is returned.
C30_OnlyOwnRows ==
  [][/\ db' # db /\ fnRes'.fn = "delete-account" => RemovedOnlyRowsOf(fnRes'.user)
     /\ RefusedDeletesNothing]_vars

\* a step removed only rows of the user u and rows that hang, by ON DELETE
\* CASCADE, on a workspace u owned or on an analysis or resume of u
RemovedOwnOrCascaded(u) ==
  LET owned == {w.id : w \in {x \in db.team_workspaces : x.owner_id = u}}
      analyses == {r.id : r \in {x \in db.analysis_results :
                                   \/ x.user_id = u
                                   \/ \E rs \in db.resumes : rs.id = x.resume_id /\ rs.user_id = u}}
  IN /\ \A t \in UserTables \ {"workspace_members", "analysis_results"} :
          \A r \in Removed(t) : r.user_id = u
     /\ \A r \in Removed("analysis_results") : r.id \in analyses
     /\ \A m \in Removed("workspace_members") : m.user_id = u \/ m.workspace_id \in owned
     /\ \A w \in Removed("team_workspaces") : w.owner_id = u
     /\ \A inv \in Removed("pending_invitations") : inv.workspace_id \in owned
     /\ \A sh \in Removed("shared_analyses") :
          sh.workspace_id \in owned \/ sh.analysis_id \in analyses
     /\ Removed("users") \subseteq {u}

\* C30, amended: delete-account deletes only rows whose user id or owner id is
\* the id of the user of the token and the rows that hang on them by ON DELETE
\* CASCADE; every other row stays, and without a header or with an invalid
\* token nothing is deleted and the generic error is returned.
C30_OwnRowsAndCascade ==
  [][/\ db' # db /\ fnRes'.fn = "delete-account" => RemovedOwnOrCascaded(fnRes'.user)
     /\ RefusedDeletesNothing]_vars

\* user 1 has deleted their account: their rows and their workspace are gone
\* and no membership of that workspace is left, while the rows of user 2 in
\* the other tables are there
C30_Witness ==
  /\ fnRes.fn = "delete-account"
  /\ fnRes.user = 1
  /\ fnRes.status = 200
  /\ 1 \notin db.users
  /\ \A w \in db.team_workspaces : w.id # 1
  /\ db.workspace_members = {}
  /\ [id |-> 2, user_id |-> 2] \in db.resumes
  /\ [user_id |-> 2, email |-> 2] \in db.profiles

====
